---------------------------- MODULE Spec2Model ----------------------------
(***************************************************************************)
(* Scheduled output engine of the DeckLink display                         *)
(* (src/src/video_display/decklink.cpp): the reference-counted frame       *)
(* buffers and their pool, the PlaybackDelegate scheduler (schedFrames,    *)
(* lastSchedFrame, schedSeq, m_audio_sync_ts) and the display session      *)
(* (getf / putf / reconfigure / done), run against a model of the output   *)
(* device that plays scheduled frames on its own clock and notifies each   *)
(* retired frame through ScheduledFrameCompleted.                          *)
(*                                                                         *)
(* Every handler is one action.  The handlers call each other              *)
(* (reconfigure calls Reset, EnqueueFrame and ScheduleNextFrame; the       *)
(* completion callback calls ScheduleNextFrame and Release), so each       *)
(* function of the source is an operator from a state record to a state    *)
(* record, and an action applies the composition to the current state.     *)
(***************************************************************************)
EXTENDS Integers, Sequences, FiniteSets, TLC

VARIABLES
    \* DeckLinkFrame objects (indexed by allocation order 1..Len(frames))
    frames,            \* <<[ref, desc, timestamp]>>: atomic<ULONG> ref, the
                       \* immutable width/height/rawBytes/pixelFormat, timestamp
    \* buffer_pool_t
    frame_queue,       \* buffer_pool.frame_queue: the pool free list
    \* PlaybackDelegate
    schedFrames,       \* queue<DeckLinkFrame *> awaiting scheduling
    lastSchedFrame,    \* last frame handed to the device, or NULL
    schedSeq,          \* next slot index
    m_audio_sync_ts,   \* atomic<int64_t>: deinit, resync or an anchor
    m_adata,           \* struct audio_vals: [saved_sync_ts, last_sync_ts]
    frameRate,         \* [duration, scale] set by get_mode
    \* state_decklink
    cfg,               \* settings fixed by display_decklink_init:
                       \* low_latency, m_min_sched_frames, m_max_sched_frames,
                       \* play_audio, stereo (the option 3D)
    initialized,
    stereo,            \* 3D output: frames are DeckLink3DFrame
    vid_desc,
    pixelFormat,
    aud_desc,
    audio_reconfigure,
    audio_reconf_lock, \* mutex: "free" or the thread that holds it
    closed,            \* display_decklink_done has run
    \* the output device (IDeckLinkOutput), an external collaborator
    dev,               \* [pending, done, playing, callback]
    \* the producer thread
    inflight,          \* frame obtained by getf and not yet passed to putf
    \* the threads
    pc,                \* [producer, audio, channels]: where the producer thread
                       \* and the audio thread are in a handler that takes
                       \* audio_reconf_lock, and the argument of the audio thread;
                       \* [device]: the completion whose ScheduledFrameCompleted
                       \* the device's thread has entered, if any
    \* observation of the run
    obs,               \* counters and flags accumulated over the run
    ev                 \* what the last handler did

vars == <<frames, frame_queue, schedFrames, lastSchedFrame, schedSeq,
          m_audio_sync_ts, m_adata, frameRate, cfg, initialized, stereo,
          vid_desc, pixelFormat, aud_desc, audio_reconfigure,
          audio_reconf_lock, closed, dev, inflight, pc, obs, ev>>

-----------------------------------------------------------------------------
(* Program constants *)

MAX_UNPROC_QUEUE_SIZE == 10
SCHED_RANGE == 2
DEFAULT_MIN_SCHED_FRAMES == 4
DEFAULT_MAX_SCHED_FRAMES == DEFAULT_MIN_SCHED_FRAMES + SCHED_RANGE
MEDIA_CLOCK_RATE == 90000

\* a null DeckLinkFrame pointer (frames are numbered from 1)
NULL == 0

-----------------------------------------------------------------------------
(* Bounds of the model *)

\* frames ever allocated (pool misses and pre-fill frames)
MaxFrames == 3
\* putf calls in a run
MaxSubmits == 2
\* slot indices handed to the device in one session
MaxSeq == 3
\* reconfigure calls in a run
MaxReconf == 2
\* the same for the runs of SpecBurst
MaxBurstFrames == 12
MaxBurstSubmits == 11
MaxBurstSeq == 5
MaxBurstReconf == 1
\* SpecSessions: the same four limits for runs of several sessions
MaxSessionFrames == 3
MaxSessionSubmits == 2
MaxSessionSeq == 4
MaxSessions == 2
\* SpecAudio: the same four limits, and the put_audio_frame calls of a run
MaxAnchorFrames == 3
MaxAnchorSubmits == 3
MaxAnchorSeq == 4
MaxAnchorReconf == 1
MaxAudioFrames == 3
MaxAudioSubmits == 2
MaxAudioSeq == 3
MaxAudioReconf == 2
MaxAudioPuts == 3
\* SpecWrap: audio frames submitted
MaxWrapPuts == 4
\* SpecReconf: the same four limits
MaxReconfFrames == 2
MaxReconfSubmits == 1
MaxReconfSeq == 2
MaxReconfCalls == 2
\* SpecThreads: the same four limits
MaxThreadFrames == 3
MaxThreadSubmits == 1
MaxThreadSeq == 2
MaxThreadReconf == 2
\* SpecReuse: the same four limits
MaxReuseFrames == 4
MaxReuseSubmits == 5
MaxReuseSeq == 5
MaxReuseReconf == 2

-----------------------------------------------------------------------------
(* Fixed-width integers.                                                   *)
(* ULONG (the reference count) is 32 bits wide and int64_t (timestamps and *)
(* the audio anchor) 64 bits wide.  A value is kept as 16-bit limbs so     *)
(* that wrap-around happens exactly where the machine integer wraps.       *)

LIMB == 256 * 256

\* ULONG: <<hi, lo>> stands for hi * 2^16 + lo
ULong(n) == <<n \div LIMB, n % LIMB>>
ULongInc(u) ==
    IF u[2] + 1 < LIMB THEN <<u[1], u[2] + 1>>
    ELSE <<(u[1] + 1) % LIMB, 0>>
ULongDec(u) ==
    IF u[2] > 0 THEN <<u[1], u[2] - 1>>
    ELSE <<(u[1] + LIMB - 1) % LIMB, LIMB - 1>>
ULONG_MAX == <<LIMB - 1, LIMB - 1>>

\* int64_t: [hi, mid, lo] stands for hi * 2^32 + mid * 2^16 + lo, where hi is
\* the signed upper 32-bit word and mid, lo are the 16-bit limbs of the lower
\* word.
INT32_MIN == -2147483647 - 1
I64(n) == [hi |-> 0, mid |-> n \div LIMB, lo |-> n % LIMB]
INT64_MIN == [hi |-> INT32_MIN, mid |-> 0, lo |-> 0]
I64Less(a, b) ==
    \/ a.hi < b.hi
    \/ a.hi = b.hi /\ a.mid < b.mid
    \/ a.hi = b.hi /\ a.mid = b.mid /\ a.lo < b.lo
I64Leq(a, b) == a = b \/ I64Less(a, b)
\* a - n for a small non-negative n (n < 2^31)
I64SubNat(a, n) ==
    LET lo  == a.lo - (n % LIMB)
        b1  == IF lo < 0 THEN 1 ELSE 0
        mid == a.mid - ((n \div LIMB) % LIMB) - b1
        b2  == IF mid < 0 THEN 1 ELSE 0
    IN  [hi  |-> a.hi - (n \div LIMB) \div LIMB - b2,
         mid |-> (mid + LIMB) % LIMB,
         lo  |-> (lo + LIMB) % LIMB]
\* (uint32_t) x, widened back to int64_t
U32Cast(a) == [hi |-> 0, mid |-> a.mid, lo |-> a.lo]

\* a 32-bit signed word minus n (0 <= n <= 2), wrapping at INT32_MIN
Word32Sub(w, n) ==
    IF w >= INT32_MIN + n THEN w - n ELSE 2147483647 - (n - 1 - (w - INT32_MIN))

\* a -= (1LLU << 32): the upper word loses 1, modulo 2^64
I64SubWord(a) == [a EXCEPT !.hi = Word32Sub(@, 1)]

\* the borrows of a - b out of the low and the middle limb
BorrowLo(a, b) == IF a.lo < b.lo THEN 1 ELSE 0
BorrowMid(a, b) == IF a.mid - BorrowLo(a, b) < b.mid THEN 1 ELSE 0

\* a - b leaves the range of int64_t; the cases are those of an upper word
\* b.hi that is INT32_MIN, 0 or -1
I64SubOverflows(a, b) ==
    IF b.hi = INT32_MIN THEN a.hi - BorrowMid(a, b) >= 0
    ELSE IF b.hi >= 0 THEN a.hi < INT32_MIN + b.hi + BorrowMid(a, b)
    ELSE a.hi > 2147483647 + b.hi + BorrowMid(a, b)

\* a - b where it does not overflow
I64Sub(a, b) ==
    [hi  |-> a.hi - b.hi - BorrowMid(a, b),
     mid |-> (a.mid - BorrowLo(a, b) - b.mid + LIMB) % LIMB,
     lo  |-> (a.lo - b.lo + LIMB) % LIMB]

\* the limbs of 8 * a for 0 <= a < 2^44: <<upper, mid, lo>>
Times8Lo(a) == (a.lo * 8) % LIMB
Times8Mid(a) == (a.mid * 8 + (a.lo * 8) \div LIMB) % LIMB
Times8Hi(a) == a.hi * 8 + (a.mid * 8 + (a.lo * 8) \div LIMB) \div LIMB

\* long division by 15 of the limbs <<h, m, l>>, h < 2^16
Div15Limbs(h, m, l) ==
    [hi  |-> h \div 15,
     mid |-> ((h % 15) * LIMB + m) \div 15,
     lo  |-> ((((h % 15) * LIMB + m) % 15) * LIMB + l) \div 15]

\* a * bmdAudioSampleRate48kHz / 90000 for 0 <= a < 2^44, which is a * 8 / 15
StreamTime(a) == Div15Limbs(Times8Hi(a), Times8Mid(a), Times8Lo(a))

\* enum audio_sync_val
deinit == INT64_MIN
resync == [hi |-> INT32_MIN, mid |-> 0, lo |-> 1]


-----------------------------------------------------------------------------
(* Inputs of the producer pipeline *)

\* struct video_desc: what the matching in getf and get_mode depend on
Desc1080 ==
    [width |-> 1920, height |-> 1080, color_spec |-> "UYVY", fps |-> 50,
     tile_count |-> 1]
Desc720 ==
    [width |-> 1280, height |-> 720, color_spec |-> "UYVY", fps |-> 50,
     tile_count |-> 1]
DescBad ==
    [width |-> 1920, height |-> 1080, color_spec |-> "DXT1", fps |-> 50,
     tile_count |-> 1]
\* four tiles: neither a mono nor a stereo stream
DescTiled ==
    [width |-> 1920, height |-> 1080, color_spec |-> "UYVY", fps |-> 50,
     tile_count |-> 4]
NoDesc ==
    [width |-> 0, height |-> 0, color_spec |-> "none", fps |-> 0,
     tile_count |-> 0]

\* vc_get_linesize for the packed formats of uv_to_bmd_codec_map
LineSize(width, color_spec) ==
    IF color_spec = "UYVY" THEN 2 * width ELSE 4 * width

\* uv_to_bmd_codec_map: the BMD pixel format of a codec, "none" when absent
BmdPixelFormat(color_spec) ==
    IF color_spec = "UYVY" THEN "bmdFormat8BitYUV"
    ELSE IF color_spec = "RGBA" THEN "bmdFormat8BitBGRA"
    ELSE "none"

\* get_mode: frameRateDuration / frameRateScale of the display mode of desc
ModeRate(desc) == [duration |-> 1000, scale |-> 1000 * desc.fps]

\* a frame timestamp: none (INT64_MIN) or an RTP timestamp
TsNone == INT64_MIN

-----------------------------------------------------------------------------
(* The state as one record, and the report of a handler *)

NoEv(op) ==
    [op |-> op,          \* handler that ran
     ret |-> TRUE,       \* its return value (FALSE also stands for nullptr)
     b |-> -1,           \* GetBufferedVideoFrameCount read by ScheduleNextFrame
     queued |-> <<>>,    \* schedFrames when the handler was entered
     sched |-> <<>>,     \* device entries passed to ScheduleVideoFrame, in order
     dism |-> <<>>,      \* queue entries released as dismissed, in order
     enq |-> <<>>,       \* queue entries accepted by EnqueueFrame, in order
     rej |-> <<>>,       \* queue entries refused by EnqueueFrame
     popped |-> <<>>,    \* queue entries removed from schedFrames, in order
     log |-> <<>>,       \* warnings and errors logged, in order
     rel |-> <<>>,       \* frames on which Release ran, in order
     relAtZero |-> {},   \* frames on which Release ran with ref = 0
     pushed |-> <<>>,    \* frames Release pushed onto the pool
     alloc |-> <<>>,     \* frames allocated
     active |-> FALSE,   \* the handler was entered with a schedule running:
                         \* frames queued, lastSchedFrame set, frames on the device
     poolLocked |-> FALSE, \* buffer_pool.lock is held by the running handler
     relock |-> FALSE,   \* Release took buffer_pool.lock while it was held
     uaf |-> FALSE,      \* Release pushed onto the pool after its teardown
     shown |-> <<>>,     \* frames passed to DisplayVideoFrameSync
     nullSched |-> FALSE, \* ScheduleVideoFrame was given a null frame
     stale |-> <<>>,     \* pool entries getf popped and found mismatching
     order |-> <<>>,     \* "reset" and "unset_callback", in the order they ran
     why |-> "",         \* the check or device call that made reconfigure fail
     wasInit |-> FALSE,  \* initialized when the handler was entered
     wasPending |-> FALSE, \* audio_reconfigure when the handler was entered
     reconf |-> FALSE,   \* display_decklink_reconfigure ran in the handler
     asched |-> <<>>,    \* calls of ScheduleAudioSamples: timestamp, baseline
                         \* before and after the correction, delta, streamTime
     adopted |-> FALSE,  \* ScheduleAudio took the published anchor as baseline
     wraps |-> 0,        \* times 2^32 was subtracted from the baseline
     discarded |-> FALSE, \* ScheduleAudio returned without submitting
     awritten |-> <<>>,  \* timestamps passed to WriteAudioSamplesSync
     cb |-> FALSE]       \* ScheduledFrameCompleted ran (on the device's thread)

Cur(op) ==
    [frames |-> frames, frame_queue |-> frame_queue,
     schedFrames |-> schedFrames, lastSchedFrame |-> lastSchedFrame,
     schedSeq |-> schedSeq, m_audio_sync_ts |-> m_audio_sync_ts,
     m_adata |-> m_adata,
     frameRate |-> frameRate, initialized |-> initialized, stereo |-> stereo,
     vid_desc |-> vid_desc, pixelFormat |-> pixelFormat, aud_desc |-> aud_desc,
     audio_reconfigure |-> audio_reconfigure,
     audio_reconf_lock |-> audio_reconf_lock, closed |-> closed, dev |-> dev,
     inflight |-> inflight, pc |-> pc, obs |-> obs,
     ev |-> [NoEv(op) EXCEPT
                !.queued = schedFrames,
                !.wasInit = initialized,
                !.wasPending = audio_reconfigure,
                !.active = /\ initialized /\ ~cfg.low_latency /\ dev.playing
                           /\ schedFrames # <<>> /\ lastSchedFrame # NULL
                           /\ dev.pending # <<>>]]

Commit(s) ==
    /\ frames' = s.frames
    /\ frame_queue' = s.frame_queue
    /\ schedFrames' = s.schedFrames
    /\ lastSchedFrame' = s.lastSchedFrame
    /\ schedSeq' = s.schedSeq
    /\ m_audio_sync_ts' = s.m_audio_sync_ts
    /\ m_adata' = s.m_adata
    /\ frameRate' = s.frameRate
    /\ initialized' = s.initialized
    /\ stereo' = s.stereo
    /\ vid_desc' = s.vid_desc
    /\ pixelFormat' = s.pixelFormat
    /\ aud_desc' = s.aud_desc
    /\ audio_reconfigure' = s.audio_reconfigure
    /\ audio_reconf_lock' = s.audio_reconf_lock
    /\ closed' = s.closed
    /\ dev' = s.dev
    /\ inflight' = s.inflight
    /\ pc' = s.pc
    /\ obs' = s.obs
    /\ ev' = s.ev
    /\ UNCHANGED cfg

-----------------------------------------------------------------------------
(* DeckLinkFrame *)

\* DeckLinkFrame::AddRef: ++ref
AddRef(s, f) == [s EXCEPT !.frames[f].ref = ULongInc(@)]

\* DeckLinkFrame::Release: --ref, and push onto the pool when it reaches 0
Release(s, f) ==
    LET ret == ULongDec(s.frames[f].ref)
        s1  == [s EXCEPT !.frames[f].ref = ret,
                         !.ev.rel = Append(@, f),
                         !.ev.relAtZero =
                             IF s.frames[f].ref = ULong(0) THEN @ \cup {f} ELSE @]
    IN  IF ret = ULong(0)
        THEN [s1 EXCEPT !.frame_queue = IF s.closed THEN @ ELSE Append(@, f),
                        !.ev.pushed = Append(@, f),
                        !.ev.relock = @ \/ s.ev.poolLocked,
                        !.ev.uaf = @ \/ s.closed]
        ELSE s1

\* DeckLinkFrame::DeckLinkFrame / Create: a new frame with ref = 1 and no
\* timestamp; the result is the state and the new frame is Len(frames)
Create(s, desc, pf) ==
    LET f == Len(s.frames) + 1
    IN  [s EXCEPT !.frames = Append(@,
                      [ref |-> ULong(1),
                       width |-> desc.width, height |-> desc.height,
                       rawBytes |-> LineSize(desc.width, desc.color_spec),
                       pixelFormat |-> pf,
                       is3D |-> FALSE,
                       timestamp |-> TsNone]),
                  !.ev.alloc = Append(@, f)]

\* DeckLink3DFrame::Create: a DeckLinkFrame that is a DeckLink3DFrame.  Its
\* right eye is a DeckLinkFrame of its own whose count never falls below 1
\* (getf takes and releases one reference), so it never reaches the pool.
Create3D(s, desc, pf) ==
    [Create(s, desc, pf) EXCEPT !.frames[Len(s.frames) + 1].is3D = TRUE]

\* allocate_new_decklink_frame
allocate_new_decklink_frame(s) ==
    IF s.stereo THEN Create3D(s, s.vid_desc, s.pixelFormat)
    ELSE Create(s, s.vid_desc, s.pixelFormat)

-----------------------------------------------------------------------------
(* The output device *)

\* IDeckLinkOutput::ScheduleVideoFrame(f, slot * frameRateDuration, ...):
\* the device appends the frame to its scheduled frames; a null frame is
\* refused.  id is the submit number of the frame (0: not a producer frame),
\* rep tells an underrun repeat and prev is the slot of the call before this
\* one in the session (-1: none).
ScheduleVideoFrame(s, f, id, rep) ==
    IF f = NULL
    THEN [s EXCEPT !.ev.nullSched = TRUE]
    ELSE LET e == [f |-> f, slot |-> s.schedSeq,
                   time |-> s.schedSeq * s.frameRate.duration,
                   id |-> id, rep |-> rep, epoch |-> s.obs.nreset,
                   prev |-> s.obs.lastSlot]
         IN  [s EXCEPT !.dev.pending = Append(@, e),
                       !.obs.lastSlot = s.schedSeq,
                       !.ev.sched = Append(@, e),
                       !.obs.schedLog = IF id > 0 /\ ~rep THEN Append(@, e) ELSE @]

\* IDeckLinkOutput::GetBufferedVideoFrameCount
GetBufferedVideoFrameCount(s) == Len(s.dev.pending)

-----------------------------------------------------------------------------
(* PlaybackDelegate *)

\* RELEASE_IF_NOT_NULL(lastSchedFrame)
ReleaseLast_KeepPointer(s) ==
    IF s.lastSchedFrame # NULL
    THEN Release(s, s.lastSchedFrame)
    ELSE s

ReleaseLast(s) ==
    IF s.lastSchedFrame # NULL
    THEN [Release(s, s.lastSchedFrame) EXCEPT !.lastSchedFrame = NULL]
    ELSE s

\* the loop of Reset: release and pop the front until the queue is empty
RECURSIVE ResetQueue(_)
ResetQueue(s) ==
    IF s.schedFrames = <<>> THEN s
    ELSE ResetQueue([Release(s, Head(s.schedFrames).f) EXCEPT
                        !.schedFrames = Tail(@),
                        !.ev.popped = Append(@, Head(s.schedFrames))])

\* lines 390-394: the queue loop and schedSeq = 0
ResetRest(s) ==
    [ResetQueue(s) EXCEPT
        !.schedSeq = 0, !.obs.nreset = @ + 1, !.obs.lastSlot = -1,
        !.ev.order = Append(@, "reset")]

\* PlaybackDelegate::Reset; no lock is taken
Reset(s) == ResetRest(ReleaseLast(s))

\* PlaybackDelegate::ResetAudio
ResetAudio(s) == [s EXCEPT !.m_audio_sync_ts = deinit]

\* EnqueueFrame accepting a frame into a full queue (buffered <= MAX)
EnqueueFrame_OffByOne(s, f, id) ==
    LET e == [f |-> f, id |-> id]
    IN  IF Len(s.schedFrames) <= MAX_UNPROC_QUEUE_SIZE
        THEN [s EXCEPT !.schedFrames = Append(@, e),
                       !.ev.enq = Append(@, e), !.ev.ret = TRUE]
        ELSE [Release(s, f) EXCEPT !.ev.log = Append(@, "Queue overflow"),
                                   !.ev.rej = Append(@, e),
                                   !.m_audio_sync_ts = resync,
                                   !.ev.ret = FALSE]

\* EnqueueFrame pushing at the front of the queue
EnqueueFrame_Front(s, f, id) ==
    LET e == [f |-> f, id |-> id]
    IN  IF Len(s.schedFrames) < MAX_UNPROC_QUEUE_SIZE
        THEN [s EXCEPT !.schedFrames = <<e>> \o @,
                       !.ev.enq = Append(@, e), !.ev.ret = TRUE]
        ELSE [Release(s, f) EXCEPT !.ev.log = Append(@, "Queue overflow"),
                                   !.ev.rej = Append(@, e),
                                   !.m_audio_sync_ts = resync,
                                   !.ev.ret = FALSE]

\* EnqueueFrame making room by dropping the oldest queued frame
EnqueueFrame_DropOldest(s, f, id) ==
    LET e == [f |-> f, id |-> id]
    IN  IF Len(s.schedFrames) < MAX_UNPROC_QUEUE_SIZE
        THEN [s EXCEPT !.schedFrames = Append(@, e),
                       !.ev.enq = Append(@, e), !.ev.ret = TRUE]
        ELSE [Release(s, Head(s.schedFrames).f) EXCEPT
                  !.schedFrames = Append(Tail(@), e),
                  !.ev.log = Append(@, "Queue overflow"),
                  !.ev.rej = Append(@, Head(s.schedFrames)),
                  !.m_audio_sync_ts = resync,
                  !.ev.ret = FALSE]

\* EnqueueFrame not flagging the audio resynchronization on overflow
EnqueueFrame_NoResync(s, f, id) ==
    LET e == [f |-> f, id |-> id]
    IN  IF Len(s.schedFrames) < MAX_UNPROC_QUEUE_SIZE
        THEN [s EXCEPT !.schedFrames = Append(@, e),
                       !.ev.enq = Append(@, e), !.ev.ret = TRUE]
        ELSE [Release(s, f) EXCEPT !.ev.log = Append(@, "Queue overflow"),
                                   !.ev.rej = Append(@, e),
                                   !.ev.ret = FALSE]

\* PlaybackDelegate::EnqueueFrame; id is the submit number of the frame
EnqueueFrame(s, f, id) ==
    LET buffered == Len(s.schedFrames)
        e == [f |-> f, id |-> id]
    IN  IF buffered < MAX_UNPROC_QUEUE_SIZE
        THEN [s EXCEPT !.schedFrames = Append(@, e),
                       !.ev.enq = Append(@, e), !.ev.ret = TRUE]
        ELSE [Release(s, f) EXCEPT !.ev.log = Append(@, "Queue overflow"),
                                   !.ev.rej = Append(@, e),
                                   !.m_audio_sync_ts = resync,
                                   !.ev.ret = FALSE]

\* the anchor left as the 64-bit difference
Anchor_NoCast(timestamp, rate, seq) ==
    I64SubNat(timestamp,
              (rate.duration * seq * MEDIA_CLOCK_RATE) \div rate.scale)

\* the anchor published for a frame scheduled at slot seq:
\* (uint32_t) (timestamp - frameRateDuration * schedSeq * 90000 / frameRateScale)
Anchor(timestamp, rate, seq) ==
    U32Cast(I64SubNat(timestamp,
                      (rate.duration * seq * MEDIA_CLOCK_RATE) \div rate.scale))

\* lines 434-435: f = schedFrames.front(); schedFrames.pop()
PopFront(s) ==
    [s EXCEPT !.schedFrames = Tail(@), !.ev.popped = Append(@, Head(s.schedFrames))]

\* a dismissed frame taking a slot index
Dismiss_Counted(s, e) ==
    [Release(s, e.f) EXCEPT !.ev.log = Append(@, "Dismissed frame"),
                            !.ev.dism = Append(@, e),
                            !.schedSeq = @ + 1]

\* lines 437-441: the frame is dismissed
Dismiss(s, e) ==
    [Release(s, e.f) EXCEPT !.ev.log = Append(@, "Dismissed frame"),
                            !.ev.dism = Append(@, e)]

\* lines 443-445: lastSchedFrame is replaced by f, which gets a reference
ReplaceLast(s, f) == AddRef([ReleaseLast(s) EXCEPT !.lastSchedFrame = f], f)

\* the anchor computed for the slot after the frame's
SyncAnchor_NextSlot(s, f) ==
    IF /\ I64Leq(s.m_audio_sync_ts, resync)
       /\ s.frames[f].timestamp # INT64_MIN
    THEN [s EXCEPT !.m_audio_sync_ts =
             Anchor(s.frames[f].timestamp, s.frameRate, s.schedSeq + 1),
                   !.obs.anchored = TRUE]
    ELSE s

\* lines 446-451: a pending resync is resolved by a frame with a timestamp
SyncAnchor(s, f) ==
    IF /\ I64Leq(s.m_audio_sync_ts, resync)
       /\ s.frames[f].timestamp # INT64_MIN
    THEN [s EXCEPT !.m_audio_sync_ts =
             Anchor(s.frames[f].timestamp, s.frameRate, s.schedSeq),
                   !.obs.anchored = TRUE]
    ELSE s

\* lines 452-455 (and 427-430): the frame goes to the device at slot schedSeq
ScheduleAtNextSlot(s, f, id, rep) ==
    [ScheduleVideoFrame(s, f, id, rep) EXCEPT !.schedSeq = @ + 1]

\* lines 443-455: the frame is scheduled
ScheduleFront(s, e) ==
    ScheduleAtNextSlot(SyncAnchor(ReplaceLast(s, e.f), e.f), e.f, e.id, FALSE)

\* the body of the drain loop of ScheduleNextFrame for the front entry; dismiss
\* is the outcome of the test ++i > m_max_sched_frames
DrainBody(s, dismiss) ==
    IF dismiss
    THEN Dismiss(PopFront(s), Head(s.schedFrames))
    ELSE ScheduleFront(PopFront(s), Head(s.schedFrames))

\* the drain loop scheduling whatever the device has buffered
DrainOne_NeverDismiss(s, i) == DrainBody(s, FALSE)

\* the drain loop dismissing at i >= m_max_sched_frames
DrainOne_OffByOne(s, i) == DrainBody(s, i >= cfg.m_max_sched_frames)

\* one iteration of the drain loop, i being the buffered count after ++i
DrainOne(s, i) == DrainBody(s, i > cfg.m_max_sched_frames)

\* while (!schedFrames.empty()) { ... if (++i > m_max_sched_frames) ... }
RECURSIVE Drain(_, _)
Drain(s, i) ==
    IF s.schedFrames = <<>> THEN s
    ELSE Drain(DrainOne(s, i + 1), i + 1)

\* line 417: the buffered count read by this call, as reported in ev.b
NoteBuffered(s) == [s EXCEPT !.ev.b = GetBufferedVideoFrameCount(s)]

\* the underrun branch repeating the frame at i = m_min_sched_frames as well
Underrun_OffByOne(s, i) ==
    IF i > cfg.m_min_sched_frames THEN s
    ELSE ScheduleAtNextSlot([s EXCEPT !.ev.log = Append(@, "Missing frame"),
                                      !.m_audio_sync_ts = resync],
                            s.lastSchedFrame, 0, TRUE)

\* the underrun branch leaving the audio sync state alone
Underrun_NoResync(s, i) ==
    IF i >= cfg.m_min_sched_frames THEN s
    ELSE ScheduleAtNextSlot([s EXCEPT !.ev.log = Append(@, "Missing frame")],
                            s.lastSchedFrame, 0, TRUE)

\* the empty-queue branch of ScheduleNextFrame
Underrun(s, i) ==
    IF i >= cfg.m_min_sched_frames THEN s
    ELSE ScheduleAtNextSlot([s EXCEPT !.ev.log = Append(@, "Missing frame"),
                                      !.m_audio_sync_ts = resync],
                            s.lastSchedFrame, 0, TRUE)

\* ScheduleNextFrame counting from 0 instead of the device's buffered count
ScheduleNextFrame_IgnoreBuffered(s) ==
    IF s.schedFrames = <<>>
    THEN Underrun(NoteBuffered(s), GetBufferedVideoFrameCount(s))
    ELSE Drain(NoteBuffered(s), 0)

\* PlaybackDelegate::ScheduleNextFrame
ScheduleNextFrame(s) ==
    IF s.schedFrames = <<>>
    THEN Underrun(NoteBuffered(s), GetBufferedVideoFrameCount(s))
    ELSE Drain(NoteBuffered(s), GetBufferedVideoFrameCount(s))

\* PlaybackDelegate::ScheduledFrameCompleted for the device entry e
ScheduledFrameCompleted(s, e) ==
    Release(ScheduleNextFrame([s EXCEPT !.ev.cb = TRUE]), e.f)

\* lines 1594-1597: no baseline was ever adopted and no anchor is published
NotSynchronized(s) ==
    s.m_adata.saved_sync_ts = INT64_MIN /\ s.m_audio_sync_ts = deinit

\* lines 1598-1603: a published anchor that differs from the one saved
\* becomes the baseline
AdoptAnchor(s) ==
    IF /\ s.m_adata.saved_sync_ts # s.m_audio_sync_ts
       /\ I64Less(resync, s.m_audio_sync_ts)
    THEN [s EXCEPT !.m_adata = [saved_sync_ts |-> s.m_audio_sync_ts,
                                last_sync_ts |-> s.m_audio_sync_ts],
                   !.ev.adopted = TRUE]
    ELSE s

\* the wrap-around correction left out
WrapBaseline_Never(s, ts) == s

\* lines 1606-1608: a timestamp below the baseline is taken for a wrap-around
WrapBaseline(s, ts) ==
    IF I64Less(ts, s.m_adata.last_sync_ts)
    THEN [s EXCEPT !.m_adata.last_sync_ts = I64SubWord(@),
                   !.ev.wraps = @ + 1]
    ELSE s

\* lines 1609-1620: streamTime is computed and the samples are passed to
\* ScheduleAudioSamples.  base0 is the baseline before the correction.  Where
\* the subtraction overflows int64_t the behaviour is undefined and the
\* time is u, any value
SubmitSamples(s, ts, base0, u) ==
    [s EXCEPT !.ev.asched = Append(@,
        IF I64SubOverflows(ts, s.m_adata.last_sync_ts)
        THEN [ts |-> ts, base0 |-> base0, base |-> s.m_adata.last_sync_ts,
              overflow |-> TRUE, delta |-> u, time |-> u]
        ELSE [ts |-> ts, base0 |-> base0, base |-> s.m_adata.last_sync_ts,
              overflow |-> FALSE,
              delta |-> I64Sub(ts, s.m_adata.last_sync_ts),
              time |-> StreamTime(I64Sub(ts, s.m_adata.last_sync_ts))])]

\* lines 1598-1620: the anchor is adopted, the baseline corrected and the
\* samples submitted
PlaceAudio(s, ts, u) ==
    SubmitSamples(WrapBaseline(s, ts), ts, s.m_adata.last_sync_ts, u)

\* ScheduleAudio submitting audio whether or not it is synchronized
ScheduleAudio_NoDiscard(s, ts, u) == PlaceAudio(AdoptAnchor(s), ts, u)

\* PlaybackDelegate::ScheduleAudio for an audio frame with timestamp ts
ScheduleAudio(s, ts, u) ==
    IF NotSynchronized(s) THEN [s EXCEPT !.ev.discarded = TRUE]
    ELSE PlaceAudio(AdoptAnchor(s), ts, u)

-----------------------------------------------------------------------------
(* The output device, as far as the session drives it *)

\* the stopped device flushes the frames scheduled on it: each becomes a
\* completion to notify
Flush(s) == [s EXCEPT !.dev.done = @ \o s.dev.pending, !.dev.pending = <<>>]

\* the stopped device delivers k completion notifications to the delegate;
\* frames the delegate schedules meanwhile are flushed as well
RECURSIVE DeliverCompletions(_, _)
DeliverCompletions(s, k) ==
    IF k = 0 \/ s.dev.done = <<>> THEN s
    ELSE DeliverCompletions(
             Flush(ScheduledFrameCompleted([s EXCEPT !.dev.done = Tail(@)],
                                           Head(s.dev.done))),
             k - 1)

\* StopScheduledPlayback(0, nullptr, 0): playback stops and the scheduled
\* frames are flushed; of the completion notifications then outstanding the
\* device delivers k before the call that follows it takes effect
StopScheduledPlayback(s, k) ==
    DeliverCompletions(Flush([s EXCEPT !.dev.playing = FALSE]), k)

\* SetScheduledFrameCompletionCallback(nullptr): notifications not delivered
\* by now never are
UnsetCallback(s) ==
    [s EXCEPT !.dev.callback = FALSE, !.dev.done = <<>>,
              !.ev.order = Append(@, "unset_callback")]

\* DisableVideoOutput: the device forgets the frames scheduled on it
DisableVideoOutput(s) == [s EXCEPT !.dev.pending = <<>>, !.dev.playing = FALSE]

\* the teardown of an initialized session in reconfigure and done
StopSession(s, k) ==
    [DisableVideoOutput(UnsetCallback(
         IF ~cfg.low_latency THEN StopScheduledPlayback(s, k) ELSE s))
        EXCEPT !.dev.audio = IF cfg.play_audio THEN 0 ELSE @]

-----------------------------------------------------------------------------
(* display_decklink_reconfigure *)

\* results of the device calls of one reconfigure
Outcomes ==
    {"ok", "no_mode", "unsupported", "enable_failed"}
        \cup (IF cfg.play_audio THEN {"audio_failed"} ELSE {})
        \cup (IF cfg.low_latency THEN {} ELSE {"start_failed"})

Fail(s) == [s EXCEPT !.ev.ret = FALSE]

\* a failure of reconfigure, at the check or device call why
FailAt(s, why) == [Fail(s) EXCEPT !.ev.why = why]

\* the pre-fill loop: n times AddRef, EnqueueFrame, ScheduleNextFrame
RECURSIVE PreFill(_, _, _)
PreFill(s, f, n) ==
    IF n = 0 THEN s
    ELSE PreFill(ScheduleNextFrame(EnqueueFrame(AddRef(s, f), f, 0)), f, n - 1)

\* the number of pre-fill frames
PreFillCount == (cfg.m_min_sched_frames + cfg.m_min_sched_frames) \div 2

\* lines 1039-1049: the frame just allocated (the last of frames) is
\* pre-filled and the reference of the allocation released
PreFillNew(s) ==
    Release(PreFill(s, Len(s.frames), PreFillCount), Len(s.frames))

\* lines 1050-1062: StartScheduledPlayback and its failure
StartPlayback(s, outcome) ==
    IF outcome = "start_failed"
    THEN FailAt(DisableVideoOutput(s), outcome)
    ELSE [s EXCEPT !.dev.playing = TRUE,
                   !.initialized = TRUE, !.audio_reconfigure = FALSE]

\* lines 1035-1059: the scheduled-mode start
StartScheduled(s, outcome) ==
    StartPlayback(
        PreFillNew(allocate_new_decklink_frame([s EXCEPT !.dev.callback = TRUE])),
        outcome)

\* the teardown leaving the session marked as initialized
\* lines 875-894: the audio anchor is reset and a running session stopped
StopForReconfigure(s, k) ==
    IF s.initialized
    THEN [StopSession(ResetAudio(s), k) EXCEPT !.initialized = FALSE]
    ELSE ResetAudio(s)

Teardown_KeepInitialized(s, k) ==
    Reset(IF s.initialized THEN StopSession(ResetAudio(s), k)
          ELSE ResetAudio(s))

\* lines 875-896: the audio sync state is reset, the running session is torn
\* down and the delegate reset
Teardown(s, k) == Reset(StopForReconfigure(s, k))

\* lines 1028-1032: enable_audio
EnableAudio(s) ==
    IF cfg.play_audio THEN [s EXCEPT !.dev.audio = s.aud_desc] ELSE s

\* lines 1040-1062 of the low-latency session: nothing to start
StartLowLatency(s) ==
    [s EXCEPT !.initialized = TRUE, !.audio_reconfigure = FALSE]

\* lines 935-1062: the display mode is looked up, checked and enabled, then
\* the audio output, then playback is started
SetupMode(s, desc, outcome) ==
    IF outcome = "no_mode" THEN FailAt(s, outcome)
    ELSE IF outcome \in {"unsupported", "enable_failed", "audio_failed"}
         THEN FailAt([s EXCEPT !.frameRate = ModeRate(desc)], outcome)
    ELSE IF ~cfg.low_latency
         THEN StartScheduled(
                  EnableAudio([s EXCEPT !.frameRate = ModeRate(desc)]), outcome)
    ELSE StartLowLatency(EnableAudio([s EXCEPT !.frameRate = ModeRate(desc)]))

\* lines 912-918: one or two streams switch the 3D mode to what they need
StereoToggle(s, desc) ==
    IF /\ desc.tile_count <= 2
       /\ desc.tile_count # (IF s.stereo THEN 2 ELSE 1)
    THEN [s EXCEPT !.stereo = ~@]
    ELSE s

\* lines 920-931: 3D output takes exactly two streams
CheckStreams(s, desc, outcome) ==
    IF s.stereo /\ desc.tile_count # 2 THEN FailAt(s, "streams")
    ELSE SetupMode(s, desc, outcome)

\* lines 903-1062: the device is set up for desc
Setup(s, desc, outcome) ==
    IF BmdPixelFormat(desc.color_spec) = "none" THEN FailAt(s, "pixel_format")
    ELSE CheckStreams(
             StereoToggle([s EXCEPT !.pixelFormat =
                                        BmdPixelFormat(desc.color_spec)], desc),
             desc, outcome)

display_decklink_reconfigure(s, desc, outcome, k) ==
    Setup(Teardown([s EXCEPT !.vid_desc = desc, !.obs.nreconf = @ + 1,
                             !.ev.reconf = TRUE], k),
          desc, outcome)

-----------------------------------------------------------------------------
(* display_decklink_getf, display_decklink_putf, display_decklink_done *)

\* the descriptor test of getf
Matches(s, f) ==
    /\ s.frames[f].width = s.vid_desc.width
    /\ s.frames[f].height = s.vid_desc.height
    /\ s.frames[f].rawBytes = LineSize(s.vid_desc.width, s.vid_desc.color_spec)
    /\ s.frames[f].pixelFormat = s.pixelFormat
    /\ s.stereo => s.frames[f].is3D

\* getf never reusing a pool entry
TakeFromPool_Never(s) == s

\* the loop of getf over the pool: the first matching entry, or NULL
RECURSIVE TakeFromPool(_)
TakeFromPool(s) ==
    IF s.frame_queue = <<>> THEN s
    ELSE IF ~Matches(s, Head(s.frame_queue))
         THEN TakeFromPool(Release([s EXCEPT !.frame_queue = Tail(@),
                                             !.ev.stale =
                                                 Append(@, Head(s.frame_queue))],
                                   Head(s.frame_queue)))
         ELSE [AddRef(s, Head(s.frame_queue)) EXCEPT
                  !.frame_queue = Tail(@), !.inflight = Head(s.frame_queue)]

\* lines 690-692: no pool entry was taken, a frame is allocated
NewIfNone(s) ==
    IF s.inflight = NULL
    THEN [allocate_new_decklink_frame(s) EXCEPT !.inflight = Len(s.frames) + 1]
    ELSE s

\* lines 668-707: a frame from the pool or a new one, under buffer_pool.lock
GetFrame(s) ==
    [NewIfNone(TakeFromPool([s EXCEPT !.audio_reconfigure = FALSE,
                                      !.ev.poolLocked = TRUE]))
        EXCEPT !.ev.poolLocked = FALSE]

\* lines 657-659: getf fails when its reconfigure failed
GetFrameIfOk(s) == IF ~s.ev.ret THEN s ELSE GetFrame(s)

\* getf handing out frames of a session that is not initialized
display_decklink_getf_NoInitCheck(s, outcome, k) ==
    IF s.audio_reconfigure
    THEN GetFrameIfOk(display_decklink_reconfigure(s, s.vid_desc, outcome, k))
    ELSE GetFrame(s)

display_decklink_getf(s, outcome, k) ==
    IF ~s.initialized THEN Fail(s)
    ELSE IF s.audio_reconfigure
         THEN GetFrameIfOk(display_decklink_reconfigure(s, s.vid_desc, outcome, k))
         ELSE GetFrame(s)

\* putf queueing the frame in either mode
display_decklink_putf_Enqueue(s, timestamp) ==
    EnqueueFrame([s EXCEPT !.inflight = NULL, !.obs.nsub = @ + 1,
                           !.frames[s.inflight].timestamp = timestamp],
                 s.inflight, s.obs.nsub + 1)

display_decklink_putf(s, timestamp) ==
    IF cfg.low_latency
    THEN [Release(s, s.inflight) EXCEPT
             !.inflight = NULL, !.obs.nsub = @ + 1,
             !.ev.shown = Append(@, s.inflight)]
    ELSE EnqueueFrame([s EXCEPT !.inflight = NULL, !.obs.nsub = @ + 1,
                                !.frames[s.inflight].timestamp = timestamp],
                      s.inflight, s.obs.nsub + 1)

\* the loop of done over the pool
RECURSIVE DrainPool(_)
DrainPool(s) ==
    IF s.frame_queue = <<>> THEN s
    ELSE DrainPool(Release([s EXCEPT !.frame_queue = Tail(@)],
                           Head(s.frame_queue)))

\* display_decklink_done; delete s destroys buffer_pool before the delegate,
\* whose destructor calls Reset
display_decklink_done(s, k) ==
    Reset([DrainPool(IF s.initialized THEN StopSession(s, k) ELSE s)
              EXCEPT !.closed = TRUE])

\* display_decklink_put_audio_frame for an audio frame with timestamp ts
display_decklink_put_audio_frame(s, ts, u) ==
    IF s.audio_reconfigure THEN [s EXCEPT !.obs.naud = @ + 1]
    ELSE IF cfg.low_latency
         THEN [s EXCEPT !.obs.naud = @ + 1, !.ev.awritten = Append(@, ts)]
    ELSE ScheduleAudio([s EXCEPT !.obs.naud = @ + 1], ts, u)

\* lines 1684-1685: s->aud_desc = {...}
WriteAudDesc(s, channels) == [s EXCEPT !.aud_desc = channels]

\* line 1686: s->audio_reconfigure = true
SetAudioReconfigure(s) == [s EXCEPT !.audio_reconfigure = TRUE]

\* display_decklink_reconfigure_audio
display_decklink_reconfigure_audio(s, channels) ==
    IF channels # s.aud_desc
    THEN SetAudioReconfigure(WriteAudDesc(s, channels))
    ELSE s

\* a lock that is granted whoever holds the mutex
CanLock_Always(s) == TRUE

\* unique_lock<mutex> lk(s->audio_reconf_lock): granted when the mutex is free
CanLock(s) == s.audio_reconf_lock = "free"
Lock(s, who) == [s EXCEPT !.audio_reconf_lock = who]
\* the end of the scope of lk
Unlock(s) == [s EXCEPT !.audio_reconf_lock = "free"]

-----------------------------------------------------------------------------
(* Initial state: the session as display_decklink_init leaves it *)

\* settings of display_decklink_init: low-latency (default) or
\* synchronized[=m[,M]], with or without audio output
Configs ==
    {[low_latency |-> TRUE, m_min_sched_frames |-> DEFAULT_MIN_SCHED_FRAMES,
      m_max_sched_frames |-> DEFAULT_MAX_SCHED_FRAMES, play_audio |-> TRUE,
      stereo |-> FALSE],
     [low_latency |-> FALSE, m_min_sched_frames |-> 1,
      m_max_sched_frames |-> 1 + SCHED_RANGE, play_audio |-> FALSE,
      stereo |-> FALSE],
     [low_latency |-> FALSE, m_min_sched_frames |-> 0,
      m_max_sched_frames |-> SCHED_RANGE, play_audio |-> FALSE,
      stereo |-> FALSE]}

Descs == {Desc1080, Desc720, DescBad}

Timestamps == {TsNone, I64(MEDIA_CLOCK_RATE)}

AudioChannels == {2, 8}

InitWith(configs) ==
    /\ cfg \in configs
    /\ stereo = cfg.stereo
    /\ m_adata = [saved_sync_ts |-> INT64_MIN, last_sync_ts |-> INT64_MIN]
    /\ audio_reconf_lock = "free"
    /\ pc = [producer |-> "idle", audio |-> "idle", channels |-> 0,
             device |-> <<>>]
    /\ frames = <<>>
    /\ frame_queue = <<>>
    /\ schedFrames = <<>>
    /\ lastSchedFrame = NULL
    /\ schedSeq = 0
    /\ m_audio_sync_ts = deinit
    /\ frameRate = [duration |-> 0, scale |-> 0]
    /\ initialized = FALSE
    /\ vid_desc = NoDesc
    /\ pixelFormat = "none"
    /\ aud_desc = 2
    /\ audio_reconfigure = FALSE
    /\ closed = FALSE
    /\ dev = [pending |-> <<>>, done |-> <<>>, playing |-> FALSE,
              callback |-> FALSE, audio |-> 0]
    /\ inflight = NULL
    /\ obs = [nsub |-> 0, nreconf |-> 0, nreset |-> 0, lastSlot |-> -1,
             schedLog |-> <<>>, naud |-> 0, anchored |-> FALSE]
    /\ ev = NoEv("init")

-----------------------------------------------------------------------------
(***************************************************************************)
(* Actions.  L bounds the exploration: the frames a run may allocate, the   *)
(* putf and reconfigure calls of a run, the last slot index after which no *)
(* further completion is delivered, and the inputs offered to the handlers.*)
(***************************************************************************)

\* the handler's result becomes the next state, within the extent L
CommitWithin(s, L) ==
    /\ Len(s.frames) <= L.frames
    /\ s.obs.nreconf <= L.reconf
    /\ Commit(s)

\* the notifications a stop may still deliver
FlushChoices == 0..(Len(dev.done) + Len(dev.pending))

\* the producer asks for a frame
Getf(L) ==
    /\ ~closed /\ inflight = NULL
    /\ \E outcome \in Outcomes, k \in FlushChoices :
         /\ audio_reconfigure \/ (outcome = "ok" /\ k = 0)
         /\ CommitWithin(display_decklink_getf(Cur("getf"), outcome, k), L)

\* the producer submits the frame it holds
Putf(L) ==
    /\ ~closed /\ inflight # NULL
    /\ obs.nsub < L.submits
    /\ \E ts \in L.timestamps :
         Commit(display_decklink_putf(Cur("putf"), ts))

\* the producer reconfigures the display
Reconfigure(L) ==
    /\ ~closed /\ inflight = NULL
    /\ obs.nreconf < L.reconf
    /\ L.again \/ ~initialized
    /\ \E desc \in L.descs, outcome \in Outcomes, k \in FlushChoices :
         /\ initialized \/ k = 0
         /\ CommitWithin(display_decklink_reconfigure(Cur("reconfigure"), desc,
                                                      outcome, k), L)

\* the audio thread announces a new audio format
ReconfigureAudio ==
    /\ ~closed /\ cfg.play_audio
    /\ \E ch \in AudioChannels :
         /\ ch # aud_desc
         /\ Commit(display_decklink_reconfigure_audio(Cur("reconfigure_audio"),
                                                      ch))

\* values a computation with undefined behaviour may yield
UndefinedTimes == {I64(0), INT64_MIN, [hi |-> 2147483647, mid |-> 0, lo |-> 500]}

\* the audio thread submits an audio frame
PutAudio(L) ==
    /\ ~closed /\ cfg.play_audio
    /\ obs.naud < L.audios
    /\ \E ts \in L.audio_timestamps, u \in UndefinedTimes :
         /\ Commit(display_decklink_put_audio_frame(Cur("put_audio"), ts, u))
         /\ u = I64(0) \/ (ev'.asched # <<>> /\ ev'.asched[1].overflow)

\* the device plays the next scheduled frame and queues its notification
DeviceRetire ==
    /\ ~closed /\ dev.playing /\ dev.pending # <<>>
    /\ Commit([Cur("retire") EXCEPT
                  !.dev.pending = Tail(@),
                  !.dev.done = IF dev.callback
                               THEN Append(@, Head(dev.pending))
                               ELSE @])

\* the device has a completed frame to notify and a delegate to call
CallbackEnabled(L) ==
    /\ ~closed /\ dev.callback /\ dev.done # <<>>
    /\ schedSeq < L.seq

\* the device notifies a completed frame
Callback(L) ==
    /\ CallbackEnabled(L)
    /\ Commit(ScheduledFrameCompleted(
                  [Cur("callback") EXCEPT !.dev.done = Tail(@)], Head(dev.done)))

\* the display is closed
Done ==
    /\ ~closed /\ inflight = NULL
    /\ \E k \in FlushChoices :
         /\ initialized \/ k = 0
         /\ Commit(display_decklink_done(Cur("done"), k))

-----------------------------------------------------------------------------
(* The handlers that take audio_reconf_lock, step by step: the producer    *)
(* thread in display_decklink_reconfigure (called by the producer or by    *)
(* getf) and the audio thread in display_decklink_reconfigure_audio.       *)
(* pc tells where each thread is.                                          *)

ProducerIdle == pc.producer = "idle"

\* reconfigure is entered and takes the lock (line 875)
ReconfigureLock(L) ==
    /\ ~closed /\ inflight = NULL /\ ProducerIdle
    /\ obs.nreconf < L.reconf
    /\ L.again \/ ~initialized
    /\ CanLock(Cur("reconfigure_lock"))
    /\ Commit([Lock(Cur("reconfigure_lock"), "producer") EXCEPT
                  !.pc.producer = "reconfigure"])

\* reconfigure runs under the lock and returns
ReconfigureBody ==
    /\ pc.producer = "reconfigure"
    /\ \E desc \in {vid_desc, Desc1080}, outcome \in Outcomes,
          k \in FlushChoices :
         /\ initialized \/ k = 0
         /\ Commit([Unlock(display_decklink_reconfigure(Cur("reconfigure"),
                                                        desc, outcome, k))
                       EXCEPT !.pc.producer = "idle"])

\* getf finds audio_reconfigure set, calls reconfigure, which takes the lock
GetfLock(L) ==
    /\ ~closed /\ inflight = NULL /\ ProducerIdle
    /\ initialized /\ audio_reconfigure
    /\ obs.nreconf < L.reconf
    /\ CanLock(Cur("getf_lock"))
    /\ Commit([Lock(Cur("getf_lock"), "producer") EXCEPT
                  !.pc.producer = "getf"])

\* line 657: getf goes on to line 660 when its reconfigure returned true
AfterGetfReconfigure(s) ==
    [s EXCEPT !.pc.producer = IF s.ev.ret THEN "getf_rest" ELSE "idle"]

\* the reconfigure of getf runs under the lock, releases it and returns
GetfBody ==
    /\ pc.producer = "getf"
    /\ \E outcome \in Outcomes, k \in FlushChoices :
         Commit(AfterGetfReconfigure(
                    Unlock(display_decklink_reconfigure(Cur("getf"), vid_desc,
                                                        outcome, k))))

\* lines 660-707: getf clears audio_reconfigure, without the lock, and
\* gets a frame
GetfRest ==
    /\ pc.producer = "getf_rest"
    /\ Commit([GetFrame(Cur("getf_rest")) EXCEPT !.pc.producer = "idle"])

\* reconfigure_audio is called with a format that differs (lines 1680-1682)
AudioEnter ==
    /\ ~closed /\ cfg.play_audio
    /\ pc.audio = "idle"
    /\ \E ch \in AudioChannels :
         /\ ch # aud_desc
         /\ Commit([Cur("reconfigure_audio_enter") EXCEPT
                       !.pc.audio = "lock", !.pc.channels = ch])

\* line 1683: the audio thread takes the lock
AudioLock ==
    /\ pc.audio = "lock"
    /\ CanLock(Cur("reconfigure_audio_lock"))
    /\ Commit([Lock(Cur("reconfigure_audio_lock"), "audio") EXCEPT
                  !.pc.audio = "write_desc"])

\* lines 1684-1685: aud_desc is written
AudioWriteDesc ==
    /\ pc.audio = "write_desc"
    /\ Commit([WriteAudDesc(Cur("reconfigure_audio_desc"), pc.channels) EXCEPT
                  !.pc.audio = "write_flag"])

\* lines 1686-1690: the flag is set and the lock released
AudioWriteFlag ==
    /\ pc.audio = "write_flag"
    /\ Commit([Unlock(SetAudioReconfigure(Cur("reconfigure_audio")))
                  EXCEPT !.pc.audio = "idle"])

-----------------------------------------------------------------------------
(* Reset and the completion callback, step by step.  Reset takes no lock,  *)
(* so the producer thread can be anywhere in it when the device's thread,  *)
(* having entered ScheduledFrameCompleted before the session was stopped,  *)
(* takes schedLock in ScheduleNextFrame.                                   *)

\* the device's thread enters ScheduledFrameCompleted (line 185)
CallbackEnter(L) ==
    /\ ~closed /\ dev.callback /\ dev.done # <<>>
    /\ pc.device = <<>>
    /\ schedSeq < L.seq
    /\ Commit([Cur("callback_enter") EXCEPT
                  !.dev.done = Tail(@), !.pc.device = <<Head(dev.done)>>])

\* it runs ScheduleNextFrame under schedLock, releases the frame and returns
CallbackBody ==
    /\ pc.device # <<>>
    /\ Commit(ScheduledFrameCompleted(
                  [Cur("callback") EXCEPT !.pc.device = <<>>], pc.device[1]))

\* reconfigure stops the session and calls Reset, which releases
\* lastSchedFrame (lines 874-389)
ReconfigureEnter(L) ==
    /\ ~closed /\ inflight = NULL /\ ProducerIdle
    /\ obs.nreconf < L.reconf
    /\ L.again \/ ~initialized
    /\ \E desc \in L.descs, k \in FlushChoices :
         /\ initialized \/ k = 0
         /\ Commit(ReleaseLast(StopForReconfigure(
                       [Cur("reconfigure") EXCEPT
                           !.vid_desc = desc, !.obs.nreconf = @ + 1,
                           !.ev.reconf = TRUE, !.pc.producer = "reset"], k)))

\* Reset empties the queue, sets schedSeq and returns (lines 390-394)
ReconfigureReset ==
    /\ pc.producer = "reset"
    /\ Commit(ResetRest([Cur("reconfigure_reset") EXCEPT
                            !.pc.producer = "setup"]))

\* reconfigure sets the device up and returns (lines 903-1062)
ReconfigureRest(L) ==
    /\ pc.producer = "setup"
    /\ \E outcome \in Outcomes :
         CommitWithin(Setup([Cur("reconfigure") EXCEPT !.pc.producer = "idle"],
                            vid_desc, outcome), L)

-----------------------------------------------------------------------------
(* Spec: every configuration, every input, short runs *)

Lim ==
    [frames |-> MaxFrames, submits |-> MaxSubmits, seq |-> MaxSeq,
     reconf |-> MaxReconf, again |-> TRUE, descs |-> Descs,
     timestamps |-> Timestamps]

Init == InitWith(Configs)

Next ==
    \/ Getf(Lim)
    \/ Putf(Lim)
    \/ Reconfigure(Lim)
    \/ ReconfigureAudio
    \/ DeviceRetire
    \/ Callback(Lim)
    \/ Done

Spec == Init /\ [][Next]_vars

-----------------------------------------------------------------------------
(* SpecBurst: the default settings (4 to 6 scheduled frames), low-latency  *)
(* or synchronized, one video format, runs long enough to fill the queue.  *)
(* The format never changes, so reconfigure is called only until it has    *)
(* succeeded.                                                              *)

BurstConfigs ==
    {[low_latency |-> ll, m_min_sched_frames |-> DEFAULT_MIN_SCHED_FRAMES,
      m_max_sched_frames |-> DEFAULT_MAX_SCHED_FRAMES, play_audio |-> FALSE,
      stereo |-> FALSE] :
        ll \in BOOLEAN}

BurstLim ==
    [frames |-> MaxBurstFrames, submits |-> MaxBurstSubmits,
     seq |-> MaxBurstSeq, reconf |-> MaxBurstReconf, again |-> FALSE,
     descs |-> {Desc1080}, timestamps |-> {I64(MEDIA_CLOCK_RATE)}]

InitBurst == InitWith(BurstConfigs)

NextBurst ==
    \/ Getf(BurstLim)
    \/ Putf(BurstLim)
    \/ Reconfigure(BurstLim)
    \/ DeviceRetire
    \/ Callback(BurstLim)
    \/ Done

SpecBurst == InitBurst /\ [][NextBurst]_vars

-----------------------------------------------------------------------------
(* SpecSessions: synchronized=1 (1 to 3 scheduled frames), one video       *)
(* format, several playback sessions one after the other, each reconfigure *)
(* stopping the session that runs                                          *)

SessionConfigs ==
    {[low_latency |-> FALSE, m_min_sched_frames |-> 1,
      m_max_sched_frames |-> 1 + SCHED_RANGE, play_audio |-> FALSE,
      stereo |-> FALSE]}

SessionLim ==
    [frames |-> MaxSessionFrames, submits |-> MaxSessionSubmits,
     seq |-> MaxSessionSeq, reconf |-> MaxSessions, again |-> TRUE,
     descs |-> {Desc1080}, timestamps |-> {I64(MEDIA_CLOCK_RATE)}]

InitSessions == InitWith(SessionConfigs)

NextSessions ==
    \/ Getf(SessionLim)
    \/ Putf(SessionLim)
    \/ Reconfigure(SessionLim)
    \/ DeviceRetire
    \/ Callback(SessionLim)
    \/ Done

SpecSessions == InitSessions /\ [][NextSessions]_vars

-----------------------------------------------------------------------------
(* SpecAnchor: synchronized=1, one video format at 50 frames per second,   *)
(* one session; frames come without a timestamp or with the timestamp      *)
(* 4500, which is 2.5 frame durations of the 90 kHz clock, so that a frame *)
(* scheduled at slot 1 or 2 lies after the start of the timeline and a     *)
(* frame scheduled at a later slot before it                               *)

AnchorLim ==
    [frames |-> MaxAnchorFrames, submits |-> MaxAnchorSubmits,
     seq |-> MaxAnchorSeq, reconf |-> MaxAnchorReconf, again |-> FALSE,
     descs |-> {Desc1080},
     timestamps |-> {TsNone, I64(MEDIA_CLOCK_RATE \div 20)}]

NextAnchor ==
    \/ Getf(AnchorLim)
    \/ Putf(AnchorLim)
    \/ Reconfigure(AnchorLim)
    \/ DeviceRetire
    \/ Callback(AnchorLim)
    \/ Done

SpecAnchor == InitSessions /\ [][NextAnchor]_vars

-----------------------------------------------------------------------------
(* SpecRace: the sessions of SpecSessions with Reset and the completion    *)
(* callback step by step                                                   *)

NextRace ==
    \/ ProducerIdle /\ Getf(SessionLim)
    \/ ProducerIdle /\ Putf(SessionLim)
    \/ ReconfigureEnter(SessionLim)
    \/ ReconfigureReset
    \/ ReconfigureRest(SessionLim)
    \/ DeviceRetire
    \/ CallbackEnter(SessionLim)
    \/ CallbackBody
    \/ ProducerIdle /\ pc.device = <<>> /\ Done

SpecRace == InitSessions /\ [][NextRace]_vars

-----------------------------------------------------------------------------
(* SpecAudio: a session with audio output, low-latency or synchronized=1,  *)
(* with one video and one audio format; the video timestamps are near the  *)
(* top of the 32-bit range and the audio timestamps lie before and after   *)
(* the wrap-around                                                         *)

AudioConfigs ==
    {[low_latency |-> ll, m_min_sched_frames |-> 1,
      m_max_sched_frames |-> 1 + SCHED_RANGE, play_audio |-> TRUE,
      stereo |-> FALSE] : ll \in BOOLEAN}

\* 2^32 - 2^16, a video timestamp shortly before the wrap-around
TsTop == [hi |-> 0, mid |-> LIMB - 1, lo |-> 0]

\* audio timestamps: before the wrap-around and twice after it
AudioTimestamps ==
    {[hi |-> 0, mid |-> LIMB - 1, lo |-> 30000], I64(500), I64(3000)}

AudioLim ==
    [frames |-> MaxAudioFrames, submits |-> MaxAudioSubmits,
     seq |-> MaxAudioSeq, reconf |-> MaxAudioReconf, again |-> FALSE,
     descs |-> {Desc1080}, timestamps |-> {TsTop},
     audios |-> MaxAudioPuts, audio_timestamps |-> AudioTimestamps]

InitAudio == InitWith(AudioConfigs)

NextAudio ==
    \/ Getf(AudioLim)
    \/ Putf(AudioLim)
    \/ Reconfigure(AudioLim)
    \/ PutAudio(AudioLim)
    \/ DeviceRetire
    \/ Callback(AudioLim)
    \/ Done

SpecAudio == InitAudio /\ [][NextAudio]_vars

-----------------------------------------------------------------------------
(* SpecLive: synchronized=0 and synchronized=1 with a device that goes on  *)
(* playing what is scheduled on it and notifying what it played: a frame   *)
(* that can be retired eventually is, and so is a notification that can be *)
(* delivered.  The producer is not obliged to do anything.  Frames are     *)
(* submitted while schedSeq is below its limit, so that the callback that  *)
(* follows a submit is within the explored runs.                           *)

LiveConfigs ==
    {[low_latency |-> FALSE, m_min_sched_frames |-> m,
      m_max_sched_frames |-> m + SCHED_RANGE, play_audio |-> FALSE,
      stereo |-> FALSE] : m \in {0, 1}}

InitLive == InitWith(LiveConfigs)

NextLive ==
    \/ Getf(AnchorLim)
    \/ schedSeq < AnchorLim.seq /\ Putf(AnchorLim)
    \/ Reconfigure(AnchorLim)
    \/ DeviceRetire
    \/ Callback(AnchorLim)
    \/ Done

\* WF_vars(Callback(AnchorLim)) with its ENABLED written out: the callback is
\* enabled, and then changes dev.done, exactly where CallbackEnabled holds
SpecLive ==
    /\ InitLive /\ [][NextLive]_vars
    /\ WF_vars(DeviceRetire)
    /\ \/ []<>(~CallbackEnabled(AnchorLim))
       \/ []<><<Callback(AnchorLim)>>_vars

-----------------------------------------------------------------------------
(* SpecWrap: the sessions of SpecAudio with audio timestamps that go round *)
(* the 32-bit range in three steps, each shorter than 2^31                 *)

\* a third and two thirds of the range, between a timestamp right after a
\* wrap-around and one right after the next
WrapTimestamps ==
    {I64(500), [hi |-> 0, mid |-> LIMB \div 3, lo |-> 0],
     [hi |-> 0, mid |-> 2 * (LIMB \div 3), lo |-> 0], I64(600)}

WrapLim ==
    [AudioLim EXCEPT !.audios = MaxWrapPuts,
                     !.audio_timestamps = WrapTimestamps]

NextWrap ==
    \/ Getf(WrapLim)
    \/ Putf(WrapLim)
    \/ Reconfigure(WrapLim)
    \/ PutAudio(WrapLim)
    \/ DeviceRetire
    \/ Callback(WrapLim)
    \/ Done

SpecWrap == InitAudio /\ [][NextWrap]_vars

-----------------------------------------------------------------------------
(* SpecResync: the sessions of SpecAudio, with reconfigure called again on *)
(* a running session, so that audio arrives between the reset of the audio *)
(* sync state and the next anchor                                          *)

ResyncLim == [AudioLim EXCEPT !.again = TRUE]

NextResync ==
    \/ Getf(ResyncLim)
    \/ Putf(ResyncLim)
    \/ Reconfigure(ResyncLim)
    \/ PutAudio(ResyncLim)
    \/ DeviceRetire
    \/ Callback(ResyncLim)
    \/ Done

SpecResync == InitAudio /\ [][NextResync]_vars

-----------------------------------------------------------------------------
(* SpecReconf: reconfigure with every result and its callers.  Sessions    *)
(* with audio output in both modes and a session opened with the option    *)
(* 3D; formats that are accepted, that have no BMD pixel format and (for  *)
(* the 3D session) that carry four tiles; the audio thread announcing new  *)
(* audio formats                                                           *)

ReconfConfigs ==
    {[low_latency |-> TRUE, m_min_sched_frames |-> DEFAULT_MIN_SCHED_FRAMES,
      m_max_sched_frames |-> DEFAULT_MAX_SCHED_FRAMES, play_audio |-> TRUE,
      stereo |-> FALSE],
     [low_latency |-> FALSE, m_min_sched_frames |-> 1,
      m_max_sched_frames |-> 1 + SCHED_RANGE, play_audio |-> TRUE,
      stereo |-> FALSE],
     [low_latency |-> TRUE, m_min_sched_frames |-> DEFAULT_MIN_SCHED_FRAMES,
      m_max_sched_frames |-> DEFAULT_MAX_SCHED_FRAMES, play_audio |-> FALSE,
      stereo |-> TRUE]}

ReconfLim ==
    [frames |-> MaxReconfFrames, submits |-> MaxReconfSubmits,
     seq |-> MaxReconfSeq, reconf |-> MaxReconfCalls, again |-> TRUE,
     descs |-> IF cfg.stereo THEN {Desc1080, DescTiled}
                             ELSE {Desc1080, DescBad},
     timestamps |-> {TsTop}]

InitReconf == InitWith(ReconfConfigs)

NextReconf ==
    \/ Getf(ReconfLim)
    \/ Putf(ReconfLim)
    \/ Reconfigure(ReconfLim)
    \/ ReconfigureAudio
    \/ DeviceRetire
    \/ Callback(ReconfLim)
    \/ Done

SpecReconf == InitReconf /\ [][NextReconf]_vars

-----------------------------------------------------------------------------
(* SpecThreads: the producer thread and the audio thread of a session with *)
(* audio output, interleaved at the lock of the reconfigurations           *)
(* The producer calls reconfigure on a session that is not initialized;    *)
(* a running session is reconfigured by getf when the audio format changed *)

ThreadConfigs ==
    {[low_latency |-> ll, m_min_sched_frames |-> 1,
      m_max_sched_frames |-> 1 + SCHED_RANGE, play_audio |-> TRUE,
      stereo |-> FALSE] : ll \in BOOLEAN}

ThreadLim ==
    [frames |-> MaxThreadFrames, submits |-> MaxThreadSubmits,
     seq |-> MaxThreadSeq, reconf |-> MaxThreadReconf, again |-> FALSE,
     descs |-> {Desc1080}, timestamps |-> {TsTop}]

InitThreads == InitWith(ThreadConfigs)

NextThreads ==
    \/ ProducerIdle /\ ~audio_reconfigure /\ Getf(ThreadLim)
    \/ GetfLock(ThreadLim)
    \/ GetfBody
    \/ GetfRest
    \/ ProducerIdle /\ Putf(ThreadLim)
    \/ ReconfigureLock(ThreadLim)
    \/ ReconfigureBody
    \/ AudioEnter
    \/ AudioLock
    \/ AudioWriteDesc
    \/ AudioWriteFlag
    \/ DeviceRetire
    \/ Callback(ThreadLim)
    \/ ProducerIdle /\ pc.audio = "idle" /\ Done

SpecThreads == InitThreads /\ [][NextThreads]_vars

-----------------------------------------------------------------------------
(* SpecReuse: synchronized=1, a session that runs out of frames, is fed    *)
(* again by a producer that gets its frames from the pool, and is then     *)
(* reconfigured to another video format                                    *)

ReuseLim ==
    [frames |-> MaxReuseFrames, submits |-> MaxReuseSubmits,
     seq |-> MaxReuseSeq, reconf |-> MaxReuseReconf, again |-> TRUE,
     descs |-> IF obs.nreconf = 0 THEN {Desc1080} ELSE {Desc720},
     timestamps |-> {TsNone}]

InitReuse == InitWith(SessionConfigs)

NextReuse ==
    \/ Getf(ReuseLim)
    \/ Putf(ReuseLim)
    \/ Reconfigure(ReuseLim)
    \/ DeviceRetire
    \/ Callback(ReuseLim)
    \/ Done

SpecReuse == InitReuse /\ [][NextReuse]_vars

-----------------------------------------------------------------------------
(* Views of the state used by the properties *)

AllFrames == 1..Len(frames)
SeqToSet(q) == {q[n] : n \in 1..Len(q)}
FramesOf(q) == {q[n].f : n \in 1..Len(q)}
IdsOf(q) == [n \in 1..Len(q) |-> q[n].id]

\* who holds a frame
HeldByProducer(f) == inflight = f
HeldByScheduler(f) ==
    \/ f \in FramesOf(schedFrames)
    \/ lastSchedFrame = f
    \/ f \in FramesOf(dev.pending) \cup FramesOf(dev.done)
InPool(f) == f \in SeqToSet(frame_queue)
PoolHasNoDuplicates == Cardinality(SeqToSet(frame_queue)) = Len(frame_queue)

\* the last handler was a completion callback / a putf in scheduled mode
IsCallback == ev.op = "callback"
IsScheduledPutf == ev.op = "putf" /\ ~cfg.low_latency

-----------------------------------------------------------------------------
(* C1.  Every frame buffer has one owner: a buffer on the pool free list   *)
(* is held neither by the producer nor by the scheduler (queued, held as   *)
(* lastSchedFrame or scheduled on the device), a buffer is not held by the *)
(* producer and the scheduler at once, and the free list holds no buffer   *)
(* twice.                                                                  *)
(* The underrun branch of ScheduleNextFrame hands lastSchedFrame to the    *)
(* device without AddRef while ScheduledFrameCompleted releases every      *)
(* completed frame, so the reference kept for lastSchedFrame is consumed   *)
(* and the frame reaches the pool while it is still lastSchedFrame.        *)
C1_SingleOwner ==
    /\ PoolHasNoDuplicates
    /\ \A f \in AllFrames :
         /\ InPool(f) => ~HeldByProducer(f) /\ ~HeldByScheduler(f)
         /\ ~(HeldByProducer(f) /\ HeldByScheduler(f))

-----------------------------------------------------------------------------
(* C2.  Release is never invoked on a frame whose reference count is 0.    *)
(* getf releases the mismatching entries it pops from the pool and done    *)
(* releases every pool entry; a pool entry has count 0, so the count wraps *)
(* to ULONG_MAX.                                                           *)
C2_NoReleaseAtZero == ev.relAtZero = {}

-----------------------------------------------------------------------------
(* C3.  The schedule queue never holds more than MAX_UNPROC_QUEUE_SIZE     *)
(* (10) frames, and frames leave it in insertion order: what a handler     *)
(* popped, followed by what it left queued, is what was queued when it was *)
(* entered followed by what it enqueued.                                   *)
C3_QueueBoundedFifo ==
    /\ Len(schedFrames) <= MAX_UNPROC_QUEUE_SIZE
    /\ ev.popped \o schedFrames = ev.queued \o ev.enq

\* a completion callback drained a full queue
C3_Witness ==
    /\ IsCallback
    /\ Len(ev.queued) = MAX_UNPROC_QUEUE_SIZE
    /\ Len(ev.popped) = MAX_UNPROC_QUEUE_SIZE
    /\ schedFrames = <<>>

-----------------------------------------------------------------------------
(* C4.  The producer frames handed to the device, in the order of the      *)
(* ScheduleVideoFrame calls, are in submit order without repetition, and a *)
(* frame submitted later gets a later slot: a slot of a later session      *)
(* (slot indices restart at 0 when Reset runs) or a higher slot index of   *)
(* the same session.                                                       *)
SlotBefore(a, b) ==
    \/ a.epoch < b.epoch
    \/ a.epoch = b.epoch /\ a.slot < b.slot

C4_DeviceOrderIsSubmitOrder ==
    \A m, n \in 1..Len(obs.schedLog) :
        m < n => /\ obs.schedLog[m].id < obs.schedLog[n].id
                 /\ obs.schedLog[n].id <= obs.nsub
                 /\ SlotBefore(obs.schedLog[m], obs.schedLog[n])

\* two producer frames were scheduled in two sessions, the later one at a
\* slot index that is not higher
C4_Witness ==
    /\ IsCallback
    /\ Len(obs.schedLog) = 2
    /\ obs.schedLog[1].epoch < obs.schedLog[2].epoch
    /\ obs.schedLog[2].slot <= obs.schedLog[1].slot
    /\ ev.sched # <<>> /\ ev.sched[1] = obs.schedLog[2]

-----------------------------------------------------------------------------
(* C5.  Which frames are dropped.  The frames a step drops are the one     *)
(* EnqueueFrame refused and those a drain dismissed; the producer frames   *)
(* it keeps are those left queued and those it handed to the device.       *)
Dropped == {e \in SeqToSet(ev.rej) \cup SeqToSet(ev.dism) : e.id > 0}
Kept ==
    {e.id : e \in {x \in SeqToSet(schedFrames) : x.id > 0}}
        \cup {e.id : e \in {x \in SeqToSet(ev.sched) : x.id > 0 /\ ~x.rep}}

\* C5 as claimed: every frame kept in the step of a drop was submitted later
\* than the dropped frame (the oldest frames are dropped)
C5_DropsOldest == \A d \in Dropped : \A k \in Kept : k > d.id

\* C5 as the code behaves: every frame kept in the step of a drop was
\* submitted earlier than the dropped frame (the newest frames are dropped)
C5_DropsNewest == \A d \in Dropped : \A k \in Kept : k < d.id

\* a drain scheduled some producer frames and dismissed others
C5_Witness ==
    /\ IsCallback
    /\ Dropped # {} /\ Kept # {}
    /\ ev.dism # <<>>

-----------------------------------------------------------------------------
(* C6.  A drain of N <= m_max_sched_frames queued frames.                  *)
\* the drain scheduled every queued frame, in queue order, at increasing
\* slots, and dismissed none
ScheduledAllQueued ==
    /\ ev.dism = <<>>
    /\ Len(ev.sched) = Len(ev.queued)
    /\ \A n \in 1..Len(ev.sched) :
         /\ ev.sched[n].f = ev.queued[n].f
         /\ ev.sched[n].id = ev.queued[n].id
         /\ ~ev.sched[n].rep
         /\ n > 1 => ev.sched[n].slot > ev.sched[n - 1].slot

-----------------------------------------------------------------------------
(* C7.  A drain of N >= 1 queued frames with b frames buffered on the      *)
(* device schedules the first min(N, max(0, m_max_sched_frames - b)) of    *)
(* them in queue order, releases each of the others once and logs it as    *)
(* dismissed, and leaves the queue empty.  With 4 to 6 scheduled frames,   *)
(* b = 0 and 8 frames queued: frames 1-6 scheduled, 7-8 dismissed.         *)
Min(a, b) == IF a < b THEN a ELSE b
Max(a, b) == IF a > b THEN a ELSE b
Room == Min(Len(ev.queued), Max(0, cfg.m_max_sched_frames - ev.b))
Count(q, x) == Cardinality({n \in 1..Len(q) : q[n] = x})

C7_DrainSplit ==
    (IsCallback /\ Len(ev.queued) >= 1) =>
        /\ schedFrames = <<>>
        /\ ev.popped = ev.queued
        /\ Len(ev.sched) = Room
        /\ \A n \in 1..Len(ev.sched) :
             /\ ev.sched[n].f = ev.queued[n].f
             /\ ev.sched[n].id = ev.queued[n].id
             /\ ~ev.sched[n].rep
        /\ ev.dism = SubSeq(ev.queued, Room + 1, Len(ev.queued))
        /\ Count(ev.log, "Dismissed frame") = Len(ev.queued) - Room
        /\ \A d \in SeqToSet(ev.dism) :
             /\ d.f \in SeqToSet(ev.rel)
             /\ d.f \in SeqToSet(ev.pushed) => InPool(d.f)
        /\ (/\ cfg.m_min_sched_frames = 4 /\ cfg.m_max_sched_frames = 6
            /\ ev.b = 0 /\ Len(ev.queued) = 8) =>
               /\ IdsOf(ev.sched) = SubSeq(IdsOf(ev.queued), 1, 6)
               /\ IdsOf(ev.dism) = SubSeq(IdsOf(ev.queued), 7, 8)
               /\ Count(ev.log, "Dismissed frame") = 2

\* the drain of 8 queued frames with nothing buffered on the device
C7_Witness ==
    /\ IsCallback
    /\ cfg.m_min_sched_frames = 4 /\ cfg.m_max_sched_frames = 6
    /\ ev.b = 0
    /\ Len(ev.queued) = 8
    /\ Len(ev.dism) = 2

-----------------------------------------------------------------------------
(* C8.  putf in scheduled mode: with fewer than MAX_UNPROC_QUEUE_SIZE      *)
(* frames queued the frame is appended and putf returns true; with the     *)
(* queue full putf returns false, the frame is released once (and is on    *)
(* the pool when that brought its count to 0), the queue is unchanged, the *)
(* overflow is logged and m_audio_sync_ts becomes resync.  putf returns    *)
(* false in no other case; so of MAX_UNPROC_QUEUE_SIZE + 1 frames          *)
(* submitted before any drain exactly the last one is dropped.             *)
C8_OverflowDropsOne ==
    /\ (ev.op = "putf" /\ ~ev.ret) =>
           /\ ~cfg.low_latency
           /\ Len(ev.queued) = MAX_UNPROC_QUEUE_SIZE
    /\ (IsScheduledPutf /\ Len(ev.queued) < MAX_UNPROC_QUEUE_SIZE) =>
           /\ ev.ret
           /\ Len(ev.enq) = 1 /\ ev.enq[1].id = obs.nsub
           /\ schedFrames = ev.queued \o ev.enq
           /\ ev.rej = <<>> /\ ev.rel = <<>>
    /\ (IsScheduledPutf /\ Len(ev.queued) >= MAX_UNPROC_QUEUE_SIZE) =>
           /\ ~ev.ret
           /\ Len(ev.rej) = 1 /\ ev.rej[1].id = obs.nsub
           /\ ev.enq = <<>>
           /\ schedFrames = ev.queued
           /\ ev.rel = <<ev.rej[1].f>>
           /\ ev.rej[1].f \in SeqToSet(ev.pushed) => InPool(ev.rej[1].f)
           /\ ev.log = <<"Queue overflow">>
           /\ m_audio_sync_ts = resync

\* the 11th frame submitted before any drain is refused, the first 10 stay
C8_Witness ==
    /\ IsScheduledPutf
    /\ ~ev.ret
    /\ obs.nsub = MAX_UNPROC_QUEUE_SIZE + 1
    /\ IdsOf(schedFrames) = [n \in 1..MAX_UNPROC_QUEUE_SIZE |-> n]
    /\ InPool(ev.rej[1].f)
    /\ m_audio_sync_ts = resync

-----------------------------------------------------------------------------
(* C9.  A completion callback that finds the queue empty and fewer than    *)
(* m_min_sched_frames frames buffered hands lastSchedFrame to the device   *)
(* once more, at the slot after the last one used, sets m_audio_sync_ts to *)
(* resync and logs one missing frame.                                      *)
C9_UnderrunRepeatsLast ==
    (/\ IsCallback
     /\ ev.queued = <<>>
     /\ ev.b < cfg.m_min_sched_frames) =>
        /\ lastSchedFrame # NULL
        /\ Len(ev.sched) = 1
        /\ ev.sched[1].f = lastSchedFrame
        /\ ev.sched[1].rep
        /\ ev.sched[1].slot = ev.sched[1].prev + 1
        /\ schedSeq = ev.sched[1].slot + 1
        /\ dev.pending # <<>>
        /\ dev.pending[Len(dev.pending)] = ev.sched[1]
        /\ m_audio_sync_ts = resync
        /\ ev.log = <<"Missing frame">>

\* an underrun repeat after at least one frame was scheduled
C9_Witness ==
    /\ IsCallback
    /\ ev.queued = <<>>
    /\ ev.b < cfg.m_min_sched_frames
    /\ Len(ev.sched) = 1
    /\ ev.sched[1].prev >= 0

-----------------------------------------------------------------------------
(* C10.  After a reconfigure entered with a schedule running (frames       *)
(* queued, lastSchedFrame set, frames on the device) every frame that      *)
(* neither the producer nor the scheduler nor the device holds has         *)
(* reference count 0 and is on the pool free list.                         *)
(* The reference a scheduled frame carries for the device is released only *)
(* by ScheduledFrameCompleted; reconfigure unregisters the callback, so    *)
(* the frames whose completion was not notified keep that reference.       *)
Leaked(f) ==
    /\ ~HeldByProducer(f) /\ ~HeldByScheduler(f)
    /\ ~(frames[f].ref = ULong(0) /\ InPool(f))

C10_NoLeakAfterReconfigure ==
    (ev.op = "reconfigure" /\ ev.active) => \A f \in AllFrames : ~Leaked(f)

-----------------------------------------------------------------------------
(* C11.  getf destroys every pool entry it pops and finds mismatching and  *)
(* does not requeue it: after getf no such entry is on the pool free list, *)
(* and none is left allocated and unreachable (held by nobody and not on   *)
(* the free list).                                                         *)
(* A frame object is never destroyed: Release only decrements the count    *)
(* and pushes the frame onto the pool at 0, and no statement deletes a     *)
(* DeckLinkFrame.  getf calls Release on the popped entry, whose count is  *)
(* 0, so the count wraps to ULONG_MAX and the frame stays allocated, off   *)
(* the free list and referenced by nobody.                                 *)
Allocated(f) == f \in AllFrames
Unreachable(f) == ~InPool(f) /\ ~HeldByProducer(f) /\ ~HeldByScheduler(f)

C11_StaleEntriesDestroyed ==
    ev.op = "getf" =>
        \A f \in SeqToSet(ev.stale) :
            /\ ~InPool(f)
            /\ ~(Allocated(f) /\ Unreachable(f))

-----------------------------------------------------------------------------
(* C12.  Every frame getf returns, taken from the pool or newly allocated, *)
(* has reference count 1 when it is returned.                              *)
C12_AcquiredCountIsOne ==
    (ev.op = "getf" /\ ev.ret) =>
        /\ inflight # NULL
        /\ frames[inflight].ref = ULong(1)

-----------------------------------------------------------------------------
-----------------------------------------------------------------------------
(* C14.  getf returns a frame only of an initialized session with no audio *)
(* reconfiguration pending.  Entered with the session uninitialized it     *)
(* returns no frame (and does nothing); entered with audio_reconfigure set *)
(* it first runs reconfigure, which enables the audio output with the new  *)
(* format, and returns no frame when that reconfigure fails; otherwise it  *)
(* returns a frame.                                                        *)
C14_GetfOnlyWhenReady ==
    ev.op = "getf" =>
        /\ ev.ret => initialized /\ ~audio_reconfigure /\ inflight # NULL
        /\ ~ev.ret => inflight = NULL
        /\ ~ev.wasInit => ~ev.ret /\ ~ev.reconf
        /\ (ev.wasInit /\ ev.wasPending) =>
               /\ ev.reconf
               /\ ev.ret <=> initialized
               /\ ev.ret => dev.audio = aud_desc
        /\ (ev.wasInit /\ ~ev.wasPending) => ev.ret /\ ~ev.reconf

\* a getf that applied a pending audio reconfiguration and returned a frame
C14_Witness ==
    /\ ev.op = "getf" /\ ev.ret
    /\ ev.wasInit /\ ev.wasPending /\ ev.reconf
    /\ dev.audio = 8
    /\ inflight # NULL

-----------------------------------------------------------------------------
(* C15.  A reconfigure that fails (called by the producer or by getf)      *)
(* leaves the session uninitialized, whatever made it fail: no BMD pixel   *)
(* format, a wrong number of streams, no display mode, a mode that is not  *)
(* supported, or a failure to enable the video or audio output or to start *)
(* playback.  The session becomes initialized only by a reconfigure that   *)
(* succeeds; until then getf returns no frame and no putf takes place.     *)
FailedReconfigure == ev.reconf /\ ~ev.ret

C15_FailedReconfigureUninitialized ==
    [][/\ (ev'.reconf /\ ~ev'.ret) => ~initialized'
       /\ (~initialized /\ initialized') => (ev'.reconf /\ ev'.ret)
       /\ ~initialized => /\ ev'.op # "putf"
                          /\ inflight' = NULL
                          /\ ev'.op = "getf" => ~ev'.ret]_vars

\* a running scheduled session was reconfigured and playback did not start
C15_Witness ==
    /\ FailedReconfigure
    /\ ev.wasInit
    /\ ev.why = "start_failed"
    /\ ~initialized

-----------------------------------------------------------------------------
(* C16.  In low-latency mode putf passes the frame to DisplayVideoFrameSync *)
(* and releases it, returns true, and leaves schedFrames, lastSchedFrame,  *)
(* schedSeq and m_audio_sync_ts as they were; and no step (getf, putf,     *)
(* put_audio_frame, reconfigure, a completion callback) changes            *)
(* low_latency.                                                            *)
C16_LowLatencyPutf ==
    [][/\ cfg'.low_latency = cfg.low_latency
       /\ (ev'.op = "putf" /\ cfg.low_latency) =>
              /\ ev'.ret
              /\ ev'.shown = <<inflight>>
              /\ ev'.rel = <<inflight>>
              /\ inflight' = NULL
              /\ ev'.enq = <<>> /\ ev'.sched = <<>>
              /\ UNCHANGED <<schedFrames, lastSchedFrame, schedSeq,
                             m_audio_sync_ts>>]_vars

\* a low-latency putf displayed its frame and released it onto the pool
C16_Witness ==
    /\ ev.op = "putf" /\ cfg.low_latency
    /\ ev.ret
    /\ Len(ev.shown) = 1
    /\ ev.rel = ev.shown
    /\ InPool(ev.shown[1])
    /\ schedFrames = <<>> /\ lastSchedFrame = NULL

-----------------------------------------------------------------------------
(* C17.  put_audio_frame in scheduled mode, with no anchor ever published  *)
(* and m_audio_sync_ts = deinit, passes nothing to ScheduleAudioSamples    *)
(* and leaves m_audio_sync_ts and m_adata unchanged.                       *)
C17_UnsynchronizedAudioDiscarded ==
    [][(/\ ev'.op = "put_audio"
        /\ ~cfg.low_latency
        /\ ~obs.anchored
        /\ m_audio_sync_ts = deinit) =>
           /\ ev'.asched = <<>>
           /\ ev'.awritten = <<>>
           /\ UNCHANGED <<m_audio_sync_ts, m_adata>>]_vars

\* audio submitted to a running scheduled session before any anchor
C17_Witness ==
    /\ ev.op = "put_audio"
    /\ ~cfg.low_latency
    /\ initialized /\ dev.playing
    /\ ~obs.anchored
    /\ m_audio_sync_ts = deinit
    /\ ev.discarded
    /\ ev.asched = <<>>

-----------------------------------------------------------------------------
(* C18.  The wrap-around correction of ScheduleAudio.  When the baseline   *)
(* is an anchor (0 <= baseline < 2^32) and the timestamp of the audio      *)
(* frame is below it, 2^32 is subtracted from the baseline once, and the   *)
(* delta timestamp - baseline is not negative (and below 2^32).  A frame   *)
(* that finds the baseline already corrected (-2^32 <= baseline < 0)       *)
(* subtracts nothing more, and its delta is not negative either.           *)
IsAnchor(a) == a.hi = 0
IsCorrected(a) == a.hi = -1

C18_WrapCorrectedOnce ==
    \A n \in 1..Len(ev.asched) :
        /\ (IsAnchor(ev.asched[n].base0)
             /\ I64Less(ev.asched[n].ts, ev.asched[n].base0)) =>
               /\ ev.wraps = 1
               /\ ev.asched[n].base = I64SubWord(ev.asched[n].base0)
               /\ m_adata.last_sync_ts = ev.asched[n].base
               /\ ~ev.asched[n].overflow
               /\ ev.asched[n].delta.hi = 0
        /\ IsCorrected(ev.asched[n].base0) =>
               /\ ev.wraps = 0
               /\ ev.asched[n].base = ev.asched[n].base0
               /\ ~ev.asched[n].overflow
               /\ ev.asched[n].delta.hi >= 0

\* the frame after the one that was corrected: the baseline is below 0 and
\* stays
C18_Witness ==
    /\ ev.op = "put_audio"
    /\ Len(ev.asched) = 1
    /\ IsCorrected(ev.asched[1].base0)
    /\ ev.asched[1].ts = I64(3000)
    /\ ev.wraps = 0
    /\ m_adata.last_sync_ts = I64SubWord(m_adata.saved_sync_ts)
    /\ m_adata.saved_sync_ts = m_audio_sync_ts

-----------------------------------------------------------------------------
(* C19.  In reconfigure and in done, PlaybackDelegate::Reset has run       *)
(* before the completion callback is unregistered: every                   *)
(* SetScheduledFrameCompletionCallback(nullptr) of a handler is preceded   *)
(* by a Reset in that handler.                                             *)
(* Both handlers stop playback and unregister the callback first.          *)
(* reconfigure calls Reset after the teardown; done never calls it, it     *)
(* runs in the destructor of the delegate when the state is deleted, after *)
(* the pool has been emptied.                                              *)
C19_ResetBeforeUnregister ==
    \A n \in 1..Len(ev.order) :
        ev.order[n] = "unset_callback" =>
            \E m \in 1..(n - 1) : ev.order[m] = "reset"

-----------------------------------------------------------------------------
(* C20.  reconfigure and the part of reconfigure_audio that writes         *)
(* aud_desc and audio_reconfigure never run at the same time: the producer *)
(* thread is inside reconfigure only while it holds audio_reconf_lock, the *)
(* audio thread writes only while it holds it, and one thread holds it.    *)
InReconfigure == pc.producer \in {"reconfigure", "getf"}
InAudioWrite == pc.audio \in {"write_desc", "write_flag"}

C20_ReconfigurationsExclusive ==
    /\ ~(InReconfigure /\ InAudioWrite)
    /\ InReconfigure => audio_reconf_lock = "producer"
    /\ InAudioWrite => audio_reconf_lock = "audio"

\* the audio thread waits for the lock while the producer reconfigures a
\* running session
C20_Witness ==
    /\ InReconfigure
    /\ initialized
    /\ pc.audio = "lock"
    /\ audio_reconf_lock = "producer"

-----------------------------------------------------------------------------
(* C21.  m_audio_sync_ts is written by one execution context only, the     *)
(* completion callback of the device: no handler of the producer thread    *)
(* (getf, putf, reconfigure, done) and no handler of the audio thread      *)
(* changes it.                                                             *)
(* ResetAudio, called by reconfigure on the producer thread without        *)
(* schedLock, writes deinit, and EnqueueFrame, called by putf, writes      *)
(* resync on overflow; reconfigure also runs ScheduleNextFrame itself for  *)
(* the pre-fill.                                                           *)
C21_AnchorSingleWriter ==
    [][m_audio_sync_ts' # m_audio_sync_ts => ev'.cb]_vars

-----------------------------------------------------------------------------
(* C22.  No operation blocks forever and no state is a deadlock on         *)
(* schedLock, buffer_pool.lock and audio_reconf_lock; in particular a      *)
(* Release that runs while buffer_pool.lock is held by the same thread     *)
(* never takes buffer_pool.lock again.                                     *)
(* The locks are taken in one order (audio_reconf_lock, schedLock,         *)
(* buffer_pool.lock), but getf releases the mismatching pool entries       *)
(* while it holds buffer_pool.lock, and Release locks the same             *)
(* non-recursive mutex when the count reaches 0.  A pool entry has count 0 *)
(* unless the defect of C1 has put a frame onto the pool that is still in  *)
(* use; such an entry can come back with count 1.                          *)
C22_NoRelock == ~ev.relock

-----------------------------------------------------------------------------
(* C23.  Whenever lastSchedFrame is set the scheduler holds a reference on *)
(* it: its count is at least 1 and it is not on the pool free list, also   *)
(* after underrun repeats whose completions were notified.                 *)
(* The repeats take no reference (the defect of C1), so their completions  *)
(* release the one kept for lastSchedFrame.                                *)
C23_LastScheduledIsHeld ==
    lastSchedFrame # NULL =>
        /\ frames[lastSchedFrame].ref # ULong(0)
        /\ ~InPool(lastSchedFrame)

-----------------------------------------------------------------------------
(* C24.  With m_min_sched_frames <= m_max_sched_frames the device never    *)
(* buffers more than m_max_sched_frames frames.  A completion callback     *)
(* schedules a queued frame only while the buffered count it read plus the *)
(* frames it has already scheduled is below m_max_sched_frames, and        *)
(* repeats lastSchedFrame only when the count it read is below             *)
(* m_min_sched_frames.                                                     *)
C24_DeviceBufferBounded ==
    /\ Len(dev.pending) <= cfg.m_max_sched_frames
    /\ IsCallback =>
          \A n \in 1..Len(ev.sched) :
              IF ev.sched[n].rep
              THEN ev.b < cfg.m_min_sched_frames
              ELSE ev.b + (n - 1) < cfg.m_max_sched_frames

\* a drain filled the device up to m_max_sched_frames and dismissed the rest
C24_Witness ==
    /\ IsCallback
    /\ ev.sched # <<>> /\ ev.dism # <<>>
    /\ Len(dev.pending) = cfg.m_max_sched_frames

-----------------------------------------------------------------------------
(* C25.  ScheduleNextFrame called with an empty queue and a buffered count *)
(* of at least m_min_sched_frames does nothing: the completion callback    *)
(* that runs it passes no frame to the device and leaves schedFrames,      *)
(* lastSchedFrame, schedSeq, m_audio_sync_ts and the audio baseline as     *)
(* they were; the only count that changes is that of the completed frame,  *)
(* which the callback itself releases afterwards.                          *)
C25_EnoughBufferedDoesNothing ==
    [][(/\ ev'.op = "callback"
        /\ ev'.queued = <<>>
        /\ ev'.b >= cfg.m_min_sched_frames)
       => /\ ev'.sched = <<>> /\ ev'.log = <<>>
          /\ dev'.pending = dev.pending
          /\ UNCHANGED <<schedFrames, lastSchedFrame, schedSeq,
                         m_audio_sync_ts, m_adata>>
          /\ frames' = [frames EXCEPT ![Head(dev.done).f].ref = ULongDec(@)]]_vars

\* a completion found the queue empty and enough frames on the device
C25_Witness ==
    /\ IsCallback
    /\ ev.queued = <<>>
    /\ ev.b >= cfg.m_min_sched_frames /\ ev.b > 0
    /\ lastSchedFrame # NULL

-----------------------------------------------------------------------------
(* C26.  Between two resets schedSeq never decreases.  As claimed: a drain *)
(* increments it once for each frame it takes from the queue, scheduled    *)
(* or dismissed, and each scheduled frame goes to the device at the time   *)
(* schedSeq * frameRateDuration for the value of schedSeq after that       *)
(* increment.                                                              *)
SeqNeverDecreases == obs'.nreset = obs.nreset => schedSeq' >= schedSeq
IsDrain == ev'.op = "callback" /\ ev'.queued # <<>>

C26_SeqCountsDequeued ==
    [][/\ SeqNeverDecreases
       /\ IsDrain =>
             /\ schedSeq' = schedSeq + Len(ev'.popped)
             /\ \A n \in 1..Len(ev'.sched) :
                    ev'.sched[n].time = (schedSeq + n) * frameRate.duration]_vars

(* As the code has it: a drain increments schedSeq once for each frame it  *)
(* schedules and not for a frame it dismisses, and each scheduled frame    *)
(* goes to the device at schedSeq * frameRateDuration for the value of     *)
(* schedSeq before that increment, so the slots of a session are 0, 1, 2.. *)
C26_SeqCountsScheduled ==
    [][/\ SeqNeverDecreases
       /\ IsDrain =>
             /\ Len(ev'.popped) = Len(ev'.sched) + Len(ev'.dism)
             /\ schedSeq' = schedSeq + Len(ev'.sched)
             /\ \A n \in 1..Len(ev'.sched) :
                    ev'.sched[n].time =
                        (schedSeq + n - 1) * frameRate.duration]_vars

\* a drain that scheduled some frames and dismissed others
C26_Witness ==
    /\ IsCallback
    /\ Len(ev.sched) >= 2 /\ ev.dism # <<>>
    /\ schedSeq = ev.sched[1].slot + Len(ev.sched)
    /\ ev.sched[1].time > 0

-----------------------------------------------------------------------------
(* C27.  A drain that schedules a frame with a timestamp while             *)
(* m_audio_sync_ts is deinit or resync sets m_audio_sync_ts from the first *)
(* such frame and the slot at which it is scheduled; a drain entered with  *)
(* an anchor, or scheduling no frame with a timestamp, leaves              *)
(* m_audio_sync_ts as it was.                                              *)
Stamped == {n \in 1..Len(ev'.sched) :
               frames'[ev'.sched[n].f].timestamp # INT64_MIN}
FirstStamped == ev'.sched[CHOOSE n \in Stamped : \A m \in Stamped : n <= m]
\* timestamp - frameRateDuration * slot * 90000 / frameRateScale, as an integer
SlotOrigin(e) ==
    I64SubNat(frames'[e.f].timestamp,
              (frameRate.duration * e.slot * MEDIA_CLOCK_RATE)
                  \div frameRate.scale)

(* As claimed: the anchor is that difference itself. *)
C27_AnchorIsDifference ==
    [][IsDrain =>
          IF I64Leq(m_audio_sync_ts, resync) /\ Stamped # {}
          THEN m_audio_sync_ts' = SlotOrigin(FirstStamped)
          ELSE m_audio_sync_ts' = m_audio_sync_ts]_vars

(* As the code has it: the anchor is that difference cast to uint32_t, so  *)
(* a frame whose timestamp is smaller than the media time of its slot      *)
(* yields the difference plus 2^32.                                        *)
C27_AnchorIsDifferenceMod32 ==
    [][IsDrain =>
          IF I64Leq(m_audio_sync_ts, resync) /\ Stamped # {}
          THEN m_audio_sync_ts' = U32Cast(SlotOrigin(FirstStamped))
          ELSE m_audio_sync_ts' = m_audio_sync_ts]_vars

\* a drain published an anchor for a frame whose timestamp is smaller than
\* the media time of its slot
C27_Witness ==
    /\ IsCallback /\ ev.queued # <<>> /\ ev.sched # <<>>
    /\ frames[ev.sched[1].f].timestamp = I64(MEDIA_CLOCK_RATE \div 20)
    /\ (ev.sched[1].time * MEDIA_CLOCK_RATE) \div frameRate.scale
           > MEDIA_CLOCK_RATE \div 20
    /\ m_audio_sync_ts =
           [hi |-> 0, mid |-> LIMB - 1,
            lo |-> LIMB + MEDIA_CLOCK_RATE \div 20
                     - (ev.sched[1].time * MEDIA_CLOCK_RATE)
                           \div frameRate.scale]

-----------------------------------------------------------------------------
(* C28.  Reset, run in any state the display can be in, leaves schedFrames *)
(* empty, lastSchedFrame null and schedSeq 0, having called Release once   *)
(* on lastSchedFrame (if set) and once for each queued entry, each call    *)
(* taking one from the frame's count; a second Reset changes nothing more. *)
(* Where reconfigure and done run it, every entry that was queued is       *)
(* taken from the queue.                                                   *)
AfterReset == Reset(Cur("reset"))
AfterResetTwice == Reset(AfterReset)
ResetReleases ==
    (IF lastSchedFrame # NULL THEN <<lastSchedFrame>> ELSE <<>>)
        \o [n \in 1..Len(schedFrames) |-> schedFrames[n].f]
Occurrences(f, fs) == Cardinality({n \in 1..Len(fs) : fs[n] = f})
RECURSIVE DecTimes(_, _)
DecTimes(u, k) == IF k = 0 THEN u ELSE DecTimes(ULongDec(u), k - 1)
SchedulerOf(s) ==
    <<s.frames, s.frame_queue, s.schedFrames, s.lastSchedFrame, s.schedSeq,
      s.m_audio_sync_ts, s.dev, s.initialized>>

C28_ResetClearsOnce ==
    /\ AfterReset.schedFrames = <<>>
    /\ AfterReset.lastSchedFrame = NULL
    /\ AfterReset.schedSeq = 0
    /\ AfterReset.ev.rel = ResetReleases
    /\ AfterReset.ev.popped = schedFrames
    /\ \A f \in 1..Len(frames) :
          AfterReset.frames[f].ref =
              DecTimes(frames[f].ref, Occurrences(f, ResetReleases))
    /\ SchedulerOf(AfterResetTwice) = SchedulerOf(AfterReset)
    /\ AfterResetTwice.ev.rel = AfterReset.ev.rel
    /\ ev.op \in {"reconfigure", "done"} =>
          /\ Len(ev.popped) >= Len(ev.queued)
          /\ SubSeq(ev.popped, 1, Len(ev.queued)) = ev.queued

\* a reconfigure that stopped a running session: Reset found a frame queued
\* and lastSchedFrame set, and released them
C28_Witness ==
    /\ ev.op = "reconfigure" /\ ev.active
    /\ ev.queued # <<>>
    /\ SubSeq(ev.popped, 1, Len(ev.queued)) = ev.queued
    /\ Len(ev.rel) > Len(ev.queued)

-----------------------------------------------------------------------------
(* C29.  No critical section of ScheduleNextFrame runs while the producer  *)
(* thread is inside Reset, between the release of lastSchedFrame and the   *)
(* emptying of the queue.                                                  *)
(* Reset takes no lock, so a completion callback that the device's thread  *)
(* has entered is not held back.                                           *)
C29_ResetExcludesScheduleNext ==
    ~(pc.producer = "reset" /\ ev.op = "callback" /\ ev.b >= 0)

-----------------------------------------------------------------------------
(* C30.  A reconfigure that succeeds in scheduled mode has scheduled, with *)
(* playback not yet started, (m_min_sched_frames + m_max_sched_frames) / 2 *)
(* times the one frame it allocated, at the slots 0, 1, 2, ...; in         *)
(* low-latency mode it has scheduled nothing.                              *)
(* The loop of the pre-fill runs (m_min_sched_frames + m_min_sched_frames) *)
(* / 2 times.                                                              *)
InNewSession(e) == e.epoch = obs.nreset
PreFilled == SelectSeq(ev.sched, InNewSession)

C30_PreFillAverage ==
    (ev.op = "reconfigure" /\ ev.ret) =>
        IF cfg.low_latency THEN PreFilled = <<>>
        ELSE /\ Len(PreFilled) =
                  (cfg.m_min_sched_frames + cfg.m_max_sched_frames) \div 2
             /\ Len(ev.alloc) = 1
             /\ \A n \in 1..Len(PreFilled) :
                   /\ PreFilled[n].f = ev.alloc[1]
                   /\ PreFilled[n].slot = n - 1
                   /\ ~PreFilled[n].rep

-----------------------------------------------------------------------------
(* C31.  While m_audio_sync_ts holds the value deinit that reconfigure     *)
(* stored, put_audio_frame in scheduled mode passes nothing to             *)
(* ScheduleAudioSamples.                                                   *)
(* ScheduleAudio returns early only if saved_sync_ts is INT64_MIN as well; *)
(* reconfigure does not reset m_adata, so after a session that adopted an  *)
(* anchor the audio is placed against the baseline of that session.        *)
C31_NoAudioUntilResync ==
    [][(/\ ev'.op = "put_audio"
        /\ ~cfg.low_latency
        /\ m_audio_sync_ts = deinit) => ev'.asched = <<>>]_vars

-----------------------------------------------------------------------------
(* C32.  put_audio_frame in scheduled mode passes nothing to               *)
(* ScheduleAudioSamples as long as no anchor was ever adopted as the       *)
(* baseline (m_adata.saved_sync_ts is INT64_MIN after the call).           *)
(* With m_audio_sync_ts = resync, stored by an overflow or an underrun     *)
(* before any anchor, ScheduleAudio neither returns early nor adopts       *)
(* anything, and computes timestamp - INT64_MIN.                           *)
C32_NoAudioFromSentinelBaseline ==
    (/\ ev.op = "put_audio"
     /\ ~cfg.low_latency
     /\ m_adata.saved_sync_ts = INT64_MIN) => ev.asched = <<>>

-----------------------------------------------------------------------------
(* C33.  When reconfigure returns, m_audio_sync_ts is deinit or resync.    *)
(* ResetAudio is the first statement of reconfigure; the session is        *)
(* stopped after it, and a completion callback that runs in between drains *)
(* a queued frame of the old session and publishes its anchor.             *)
C33_SentinelAfterReconfigure ==
    ev.reconf => I64Leq(m_audio_sync_ts, resync)

-----------------------------------------------------------------------------
(* C34.  ScheduleVideoFrame is never given a null frame: whenever the      *)
(* underrun path of ScheduleNextFrame passes lastSchedFrame to the device, *)
(* lastSchedFrame is set.                                                  *)
(* The underrun path does not test lastSchedFrame, and Reset, which takes  *)
(* no lock, sets it to null while a completion callback may be running.    *)
C34_NoNullFrameScheduled == ~ev.nullSched

-----------------------------------------------------------------------------
(* C35.  At close no frame is pushed onto the pool after the pool has been *)
(* emptied and destroyed.                                                  *)
(* display_decklink_done empties the pool and deletes the state; Reset     *)
(* runs only then, in the destructor of the delegate, which is destroyed   *)
(* after buffer_pool, and a frame whose count it brings to 0 is pushed.    *)
C35_NoPushAfterPoolTeardown == ev.op = "done" => ~ev.uaf

-----------------------------------------------------------------------------
(* C36.  A request of reconfigure_audio is not lost: audio_reconfigure,    *)
(* once set, is cleared only when the audio output of the device has been  *)
(* enabled with the aud_desc that was stored with it.                      *)
(* getf clears the flag at line 660 after its reconfigure has returned and *)
(* released audio_reconf_lock; a reconfigure_audio that stores another     *)
(* format in between has its flag cleared with the device still on the     *)
(* format before.                                                          *)
C36_AudioRequestNotLost ==
    [][(audio_reconfigure /\ ~audio_reconfigure') => dev'.audio = aud_desc']_vars

-----------------------------------------------------------------------------
(* C37.  The slots used since the last Reset are contiguous: every frame   *)
(* handed to the device (a frame of the queue or an underrun repeat) goes  *)
(* to the slot after the one used before it, the first one after a Reset   *)
(* to slot 0, at the time slot * frameRateDuration; a dismissed frame uses *)
(* no slot.                                                                *)
(* The underrun path adds 1 to schedSeq whether or not the device took the *)
(* frame; a completion callback that runs between Reset and the pre-fill   *)
(* of reconfigure passes the null lastSchedFrame, and the pre-fill starts  *)
(* at slot 1.                                                              *)
C37_SlotsContiguous ==
    \A n \in 1..Len(ev.sched) :
        /\ ev.sched[n].slot = ev.sched[n].prev + 1
        /\ ev.sched[n].time = ev.sched[n].slot * frameRate.duration

-----------------------------------------------------------------------------
(* C38.  m_audio_sync_ts holds deinit, resync or an anchor: a value of     *)
(* 0 .. 2^32 - 1.  The sentinels are negative, so no anchor equals one.    *)
IsSentinel(v) == v = deinit \/ v = resync
IsUint32(v) == v.hi = 0 /\ v.mid \in 0..(LIMB - 1) /\ v.lo \in 0..(LIMB - 1)

C38_AnchorIsUint32 ==
    /\ IsSentinel(m_audio_sync_ts) \/ IsUint32(m_audio_sync_ts)
    /\ I64Less(deinit, I64(0)) /\ I64Less(resync, I64(0))

\* a drain published the anchor of a frame whose timestamp is smaller than
\* the media time of its slot: the difference is negative, the anchor is in
\* the upper half of the 32-bit range
C38_Witness ==
    /\ ev.op = "callback" /\ ev.sched # <<>>
    /\ ~ev.sched[1].rep
    /\ I64Less(frames[ev.sched[1].f].timestamp, I64(MEDIA_CLOCK_RATE))
    /\ ~IsSentinel(m_audio_sync_ts)
    /\ m_audio_sync_ts.mid = LIMB - 1

-----------------------------------------------------------------------------
(* C39.  Stream times do not decrease: of two audio frames submitted one   *)
(* after the other against the same anchor, the second with a timestamp    *)
(* that is the first's advanced by less than 2^31 modulo 2^32, the second  *)
(* gets a stream time that is not smaller, also when the timestamp wrapped *)
(* around in between, the first time or a later time.                      *)
(* The correction of the baseline fires when the timestamp is below the    *)
(* baseline.  After the first correction the baseline is negative and no   *)
(* timestamp is below it: at the next wrap-around nothing is subtracted    *)
(* and the delta falls by 2^32.                                            *)
Advances(a, b) == U32Cast(I64Sub(b, a)).mid < LIMB \div 2

C39_StreamTimeMonotonic ==
    [][(/\ ev.op = "put_audio" /\ ev'.op = "put_audio"
        /\ ev.asched # <<>> /\ ev'.asched # <<>>
        /\ ~ev'.adopted
        /\ ~ev.asched[1].overflow /\ ~ev'.asched[1].overflow
        /\ Advances(ev.asched[1].ts, ev'.asched[1].ts)) =>
           I64Leq(ev.asched[1].time, ev'.asched[1].time)]_vars

-----------------------------------------------------------------------------
(* C40.  No frame stays in the queue forever: with a device that retires   *)
(* and notifies, every frame EnqueueFrame accepted eventually leaves the   *)
(* queue, scheduled or released, whatever m_min_sched_frames is.           *)
(* The queue is drained by the completion callback only.  With             *)
(* m_min_sched_frames = 0 the pre-fill of reconfigure schedules nothing,   *)
(* so the device has nothing to complete and calls nothing.                *)
Queued(id) == \E n \in 1..Len(schedFrames) : schedFrames[n].id = id

C40_QueuedFrameLeaves ==
    \A id \in 1..MaxAnchorSubmits : Queued(id) ~> ~Queued(id)

=============================================================================
